---- MODULE Spec2Model ----
(***************************************************************************)
(* A model of the idea-generation repository: the quota ledger             *)
(* (BudgetManager, RateLimiter), the title histories (HistoryManager,      *)
(* NewsAggregator), the research client's query and the daily briefing     *)
(* run that ties them together.                                            *)
(*                                                                         *)
(* Money is counted in cents (MONTHLY_LIMIT = 5.00 USD = 500).  The wall   *)
(* clock is a triple [m, d, h] (month, day of the month, hour of the day); *)
(* strftime("%Y-%m") is the month, "%Y-%m-%d" the pair <<m, d>> and        *)
(* "%Y-%m-%d %H" the triple <<m, d, h>>.                                   *)
(***************************************************************************)
EXTENDS Integers, Sequences, FiniteSets, TLC

VARIABLES
    now,            \* the wall clock, datetime.now()
    budget,         \* BudgetManager.data (in memory)
    budget_file,    \* data/budget_tracking.json
    usage,          \* RateLimiter.usage (in memory)
    usage_file,     \* data/usage_tracking.json
    history,        \* HistoryManager.history (in memory)
    history_file,   \* data/ideas_history.json
    last,           \* the last completed operation: its name, inputs, pre-state and result
    pc,             \* daily_briefing.py: where the process is ("off": no process)
    run,            \* daily_briefing.py: the locals of DailyBriefing.run
    news,           \* NewsAggregator.history (in memory)
    news_file,      \* data/news_history.json
    added,          \* how many titles each history was given so far
    client,         \* the research clients: PerplexityDiscovery, UltimateAIDiscovery
    notion,         \* NotionDelivery: the cached schema and the last delivery call
    discord,        \* DiscordDelivery: the last delivery call
    procs           \* processes sharing the state files, each with its own copies

vars == <<now, budget, budget_file, usage, usage_file, history, history_file, last, pc, run,
          news, news_file, added, client, notion, discord, procs>>

budgetVars == <<budget, budget_file>>
usageVars == <<usage, usage_file>>
historyVars == <<history, history_file>>
briefVars == <<pc, run>>
newsVars == <<news, news_file, added>>
sinkVars == <<notion, discord>>

----------------------------------------------------------------------------
(* Bounds of the model *)

\* the clock runs over months 0..MaxMonth, days 0..MaxDay, hours 0..MaxHour
MaxMonth == 1
MaxDay == 1
MaxHour == 1
\* record_spending calls per month, record_* calls per window
MaxRecords == 2
MaxCalls == 2
\* the limits handed to can_generate_script / can_fetch_news are 0..MaxLimit
MaxLimit == 1

----------------------------------------------------------------------------
(* The clock *)

Times == [m : 0..MaxMonth, d : 0..MaxDay, h : 0..MaxHour]

\* the hour the clock starts in
T0 == [m |-> 0, d |-> 0, h |-> 0]

\* a timestamp field that was never written
NoTime == [m |-> -1, d |-> -1, h |-> -1]

MonthKey(t) == t.m
DayKey(t) == <<t.m, t.d>>
HourKey(t) == <<t.m, t.d, t.h>>
NoKey == << >>

\* time only moves forward: to a later hour of the day, to a later day, to a later month
Later(t) ==
    {u \in Times : \/ u.m > t.m
                   \/ u.m = t.m /\ u.d > t.d
                   \/ u.m = t.m /\ u.d = t.d /\ u.h > t.h}

\* the beginning of the next hour, of the next day, of the next month
Soon(t) ==
    {u \in Times : \/ u.m = t.m /\ u.d = t.d /\ u.h = t.h + 1
                   \/ u.m = t.m /\ u.d = t.d + 1 /\ u.h = 0
                   \/ u.m = t.m + 1 /\ u.d = 0 /\ u.h = 0}

----------------------------------------------------------------------------
(* Persisted JSON documents.  A file is absent, unreadable (open() fails),  *)
(* unparseable (json.load raises JSONDecodeError) or holds a JSON value;    *)
(* the value has the shape the component writes ("ok"), or is an empty      *)
(* array [] or an empty object {} where the component expects otherwise.    *)

Shapes == {"ok", "array", "object"}
FileKinds == {"absent", "unreadable", "unparseable", "json"}

----------------------------------------------------------------------------
(* BudgetManager *)

MONTHLY_LIMIT == 500

\* the values of a budget document whose shape is not "ok" carry no keys
BudgetBlank(shape) ==
    [shape |-> shape, current_month |-> -1, total_spend |-> 0, daily_spend |-> 0,
     last_reset |-> NoTime, runs_this_month |-> 0, last_updated |-> NoTime]

empty_budget(t) ==
    [shape |-> "ok", current_month |-> MonthKey(t), total_spend |-> 0, daily_spend |-> 0,
     last_reset |-> t, runs_this_month |-> 0, last_updated |-> NoTime]

NoFile == [kind |-> "absent", doc |-> BudgetBlank("object")]

\* open(..., 'w') + json.dump: the file holds the document
save_budget(data) == [kind |-> "json", doc |-> data]

\* BudgetManager.__init__ / load_budget: only JSONDecodeError is caught
load_budget(file, t) ==
    CASE file.kind = "absent" -> [raised |-> FALSE, data |-> empty_budget(t)]
      [] file.kind = "unparseable" -> [raised |-> FALSE, data |-> empty_budget(t)]
      [] file.kind = "unreadable" -> [raised |-> TRUE, data |-> BudgetBlank("object")]
      [] OTHER -> [raised |-> FALSE, data |-> file.doc]

\* the result of an operation: the instance's data, the file, the value returned
\* and whether an exception left the operation
BudgetResult(data, file, ret, raised) ==
    [data |-> data, file |-> file, ret |-> ret, raised |-> raised]

\* check_budget with the rollover storing the new month key but keeping the spend
check_budget_KeepsSpend(data, file, t) ==
    IF data.shape # "ok"
    THEN BudgetResult(data, file, FALSE, TRUE)
    ELSE LET rolled == data.current_month # MonthKey(t)
             d1 == IF rolled
                   THEN [data EXCEPT !.current_month = MonthKey(t),
                                     !.runs_this_month = 0]
                   ELSE data
             f1 == IF rolled THEN save_budget(d1) ELSE file
         IN BudgetResult(d1, f1, ~(d1.total_spend >= MONTHLY_LIMIT), FALSE)

check_budget(data, file, t) ==
    IF data.shape # "ok"
    THEN BudgetResult(data, file, FALSE, TRUE)   \* data["current_month"]: KeyError / TypeError
    ELSE LET rolled == data.current_month # MonthKey(t)
             d1 == IF rolled
                   THEN [data EXCEPT !.current_month = MonthKey(t),
                                     !.total_spend = 0,
                                     !.runs_this_month = 0]
                   ELSE data
             f1 == IF rolled THEN save_budget(d1) ELSE file
         IN BudgetResult(d1, f1, ~(d1.total_spend >= MONTHLY_LIMIT), FALSE)

\* record_spending without the save_budget call
record_spending_NoSave(data, file, amount, t) ==
    IF data.shape # "ok"
    THEN BudgetResult(data, file, FALSE, TRUE)
    ELSE LET d1 == [data EXCEPT !.total_spend = @ + amount,
                                !.runs_this_month = @ + 1,
                                !.last_updated = t]
         IN BudgetResult(d1, file, FALSE, FALSE)

record_spending(data, file, amount, t) ==
    IF data.shape # "ok"
    THEN BudgetResult(data, file, FALSE, TRUE)   \* data["total_spend"]: KeyError / TypeError
    ELSE LET d1 == [data EXCEPT !.total_spend = @ + amount,
                                !.runs_this_month = @ + 1,
                                !.last_updated = t]
         IN BudgetResult(d1, save_budget(d1), FALSE, FALSE)

----------------------------------------------------------------------------
(* RateLimiter *)

UsageBlank(shape) ==
    [shape |-> shape, scripts_today |-> 0, scripts_date |-> NoKey,
     news_fetches_this_hour |-> 0, news_fetch_hour |-> NoKey, last_updated |-> NoTime]

empty_usage(t) ==
    [shape |-> "ok", scripts_today |-> 0, scripts_date |-> DayKey(t),
     news_fetches_this_hour |-> 0, news_fetch_hour |-> HourKey(t), last_updated |-> t]

NoUsageFile == [kind |-> "absent", doc |-> UsageBlank("object")]

save_usage(u) == [kind |-> "json", doc |-> u]

\* RateLimiter.__init__ / _load_usage: JSONDecodeError and IOError are caught
\* _load_usage that never reads the file
load_usage_Fresh(file, t) == [raised |-> FALSE, data |-> empty_usage(t)]

load_usage(file, t) ==
    CASE file.kind = "json" -> [raised |-> FALSE, data |-> file.doc]
      [] OTHER -> [raised |-> FALSE, data |-> empty_usage(t)]

UsageResult(data, file, ret, raised) ==
    [data |-> data, file |-> file, ret |-> ret, raised |-> raised]

\* _reset_if_needed with the daily counter keyed on the hour
reset_if_needed_DailyByHour(u, file, t) ==
    IF u.shape = "array"
    THEN UsageResult(u, file, FALSE, TRUE)
    ELSE LET u0 == [u EXCEPT !.shape = "ok"]
             u1 == IF u.shape # "ok" \/ u.news_fetch_hour # HourKey(t)
                   THEN [u0 EXCEPT !.scripts_today = 0, !.scripts_date = DayKey(t),
                                   !.news_fetches_this_hour = 0,
                                   !.news_fetch_hour = HourKey(t)]
                   ELSE u0
             u3 == [u1 EXCEPT !.last_updated = t]
         IN UsageResult(u3, save_usage(u3), FALSE, FALSE)

\* _reset_if_needed reads the keys with dict.get: an object without the keys is
\* reset (None differs from every key); an array has no get and raises
reset_if_needed(u, file, t) ==
    IF u.shape = "array"
    THEN UsageResult(u, file, FALSE, TRUE)
    ELSE LET u0 == [u EXCEPT !.shape = "ok"]
             u1 == IF u.shape # "ok" \/ u.scripts_date # DayKey(t)
                   THEN [u0 EXCEPT !.scripts_today = 0, !.scripts_date = DayKey(t)]
                   ELSE u0
             u2 == IF u.shape # "ok" \/ u.news_fetch_hour # HourKey(t)
                   THEN [u1 EXCEPT !.news_fetches_this_hour = 0,
                                   !.news_fetch_hour = HourKey(t)]
                   ELSE u1
             u3 == [u2 EXCEPT !.last_updated = t]
         IN UsageResult(u3, save_usage(u3), FALSE, FALSE)

\* can_generate_script without the comparison with the limit
can_generate_script_NoLimit(u, file, max_per_day, t) ==
    LET r == reset_if_needed(u, file, t)
    IN IF r.raised THEN r ELSE [r EXCEPT !.ret = TRUE]

can_generate_script(u, file, max_per_day, t) ==
    LET r == reset_if_needed(u, file, t)
    IN IF r.raised THEN r
       ELSE [r EXCEPT !.ret = ~(r.data.scripts_today >= max_per_day)]

record_script_generation(u, file, t) ==
    LET r == reset_if_needed(u, file, t)
    IN IF r.raised THEN r
       ELSE LET u1 == [r.data EXCEPT !.scripts_today = @ + 1]
            IN UsageResult(u1, save_usage(u1), FALSE, FALSE)

can_fetch_news(u, file, max_per_hour, t) ==
    LET r == reset_if_needed(u, file, t)
    IN IF r.raised THEN r
       ELSE [r EXCEPT !.ret = ~(r.data.news_fetches_this_hour >= max_per_hour)]

record_news_fetch(u, file, t) ==
    LET r == reset_if_needed(u, file, t)
    IN IF r.raised THEN r
       ELSE LET u1 == [r.data EXCEPT !.news_fetches_this_hour = @ + 1]
            IN UsageResult(u1, save_usage(u1), FALSE, FALSE)

----------------------------------------------------------------------------
(* HistoryManager *)

MAX_HISTORY == 50

\* seq[-n:]
LastN(seq, n) ==
    IF Len(seq) > n THEN SubSeq(seq, Len(seq) - n + 1, Len(seq)) ELSE seq

\* the parsed history: a list of titles ("ok") or, in a damaged file, an object {}
HistoryValue(shape, titles) == [shape |-> shape, titles |-> titles]

NoHistoryFile == [kind |-> "absent", doc |-> HistoryValue("ok", << >>)]

save_history(h) == [kind |-> "json", doc |-> h]

\* HistoryManager.__init__ / _load_history: a bare except around open and json.load
load_history(file) ==
    CASE file.kind = "json" -> [raised |-> FALSE, data |-> file.doc]
      [] OTHER -> [raised |-> FALSE, data |-> HistoryValue("ok", << >>)]

\* get_recent_titles only reads; {} is falsy and gives "None"
get_recent_titles(h) == [raised |-> FALSE, text |-> LastN(h.titles, 20)]

HasTitle(idea) == idea.title # ""

TitleOf(idea) == idea.title

Titles_of(ideas) == [i \in 1..Len(ideas) |-> TitleOf(ideas[i])]

HistoryResult(data, file, raised) == [data |-> data, file |-> file, raised |-> raised]

\* add_ideas keeping the first MAX_HISTORY titles
add_ideas_KeepsOldest(h, file, ideas) ==
    IF h.shape # "ok"
    THEN HistoryResult(h, file, TRUE)
    ELSE LET new_titles == Titles_of(SelectSeq(ideas, HasTitle))
             extended == h.titles \o new_titles
             kept == IF Len(extended) > MAX_HISTORY
                     THEN SubSeq(extended, 1, MAX_HISTORY)
                     ELSE extended
             h1 == HistoryValue("ok", kept)
         IN HistoryResult(h1, save_history(h1), FALSE)

add_ideas(h, file, ideas) ==
    IF h.shape # "ok"
    THEN HistoryResult(h, file, TRUE)       \* {}.extend: AttributeError
    ELSE LET new_titles == Titles_of(SelectSeq(ideas, HasTitle))
             extended == h.titles \o new_titles
             kept == IF Len(extended) > MAX_HISTORY
                     THEN LastN(extended, MAX_HISTORY)
                     ELSE extended
             h1 == HistoryValue("ok", kept)
         IN HistoryResult(h1, save_history(h1), FALSE)

----------------------------------------------------------------------------
(* NewsAggregator: the history of seen titles *)

NEWS_HISTORY_CAP == 100
TITLE_PREFIX == 50

\* a string is a sequence of characters
UpperLetters ==
    <<"A", "B", "C", "D", "E", "F", "G", "H", "I", "J", "K", "L", "M",
      "N", "O", "P", "Q", "R", "S", "T", "U", "V", "W", "X", "Y", "Z">>
LowerLetters ==
    <<"a", "b", "c", "d", "e", "f", "g", "h", "i", "j", "k", "l", "m",
      "n", "o", "p", "q", "r", "s", "t", "u", "v", "w", "x", "y", "z">>

\* the lower-case letter of each upper-case letter
LowerOf ==
    [c \in {UpperLetters[i] : i \in DOMAIN UpperLetters} |->
        LowerLetters[CHOOSE i \in DOMAIN UpperLetters : UpperLetters[i] = c]]

\* str.lower, one character
Lower(c) == IF c \in DOMAIN LowerOf THEN LowerOf[c] ELSE c

\* str.lower
str_lower(str) == [i \in DOMAIN str |-> Lower(str[i])]

\* str.strip
RECURSIVE str_strip(_)
str_strip(str) ==
    IF str = << >> THEN str
    ELSE IF Head(str) = " " THEN str_strip(Tail(str))
    ELSE IF str[Len(str)] = " " THEN str_strip(SubSeq(str, 1, Len(str) - 1))
    ELSE str

Min(a, b) == IF a <= b THEN a ELSE b

\* title.lower()[:50]
Normalized(title) == [i \in 1..Min(Len(title), TITLE_PREFIX) |-> Lower(title[i])]

NewsValue(shape, seen_titles, last_updated) ==
    [shape |-> shape, seen_titles |-> seen_titles, last_updated |-> last_updated]

\* {"seen_titles": [], "last_updated": None}
empty_news == NewsValue("ok", << >>, NoTime)

NoNewsFile == [kind |-> "absent", doc |-> empty_news]

\* NewsAggregator.__init__ / _load_history: JSONDecodeError and IOError are caught
load_news_history(file) ==
    CASE file.kind = "json" -> [raised |-> FALSE, data |-> file.doc]
      [] OTHER -> [raised |-> FALSE, data |-> empty_news]

NewsResult(data, file, ret, raised) ==
    [data |-> data, file |-> file, ret |-> ret, raised |-> raised]

\* NewsAggregator._save_history with the oldest titles kept
news_save_history_KeepsOldest(h, file, titles, t) ==
    IF h.shape = "array"
    THEN NewsResult(h, file, FALSE, TRUE)
    ELSE LET all_titles == h.seen_titles \o [i \in 1..Len(titles) |-> Normalized(titles[i])]
             h1 == NewsValue("ok", SubSeq(all_titles, 1, Min(Len(all_titles), NEWS_HISTORY_CAP)), t)
         IN NewsResult(h1, [kind |-> "json", doc |-> h1], FALSE, FALSE)

\* NewsAggregator._save_history, given the titles of the items; history.get on
\* an array raises, on an object without the key gives []
news_save_history(h, file, titles, t) ==
    IF h.shape = "array"
    THEN NewsResult(h, file, FALSE, TRUE)
    ELSE LET all_titles == h.seen_titles \o [i \in 1..Len(titles) |-> Normalized(titles[i])]
             h1 == NewsValue("ok", LastN(all_titles, NEWS_HISTORY_CAP), t)
         IN NewsResult(h1, [kind |-> "json", doc |-> h1], FALSE, FALSE)

\* NewsAggregator._is_duplicate
is_duplicate(h, title) ==
    IF h.shape = "array"
    THEN [raised |-> TRUE, ret |-> FALSE]
    ELSE [raised |-> FALSE,
          ret |-> Normalized(title) \in {h.seen_titles[i] : i \in 1..Len(h.seen_titles)}]

----------------------------------------------------------------------------
(* The last completed operation *)

Op(name, t, pre, arg, ret) == [op |-> name, t |-> t, pre |-> pre, arg |-> arg, ret |-> ret]

NoOp == Op("none", NoTime, BudgetBlank("object"), 0, FALSE)

\* the amounts handed to record_spending: a small cost and one just under the limit
Amounts == {1, MONTHLY_LIMIT - 1}

\* the parts of the state a specification does not use
IdleHistory == history = HistoryValue("ok", << >>) /\ history_file = NoHistoryFile

NoRun ==
    [n |-> 0, ticks |-> 0, passNo |-> 0, all_raw_items |-> << >>, result |-> << >>,
     notion_items |-> << >>, success_count |-> 0, hist0 |-> << >>, passLog |-> << >>,
     stopped |-> "no", start |-> << >>]

IdleBrief == pc = "off" /\ run = NoRun

NoneAdded == [hist |-> 0, news |-> 0]

IdleNews == news = empty_news /\ news_file = NoNewsFile /\ added = NoneAdded

IdleBudget == budget = BudgetBlank("object") /\ budget_file = NoFile

IdleUsage == usage = UsageBlank("object") /\ usage_file = NoUsageFile

\* the two research clients
Clients == {"perplexity", "ultimate"}

\* a client that has made no query: result is what the last query returned
NewClient(api_key) ==
    [api_key |-> api_key, phase |-> "idle", attempt_number |-> 0, requests |-> 0,
     outcome |-> "none", result |-> "none", session_cost |-> 0, query_count |-> 0,
     calls |-> 0]

IdleClient == client = [c \in Clients |-> NewClient(TRUE)]

\* NotionDelivery.__init__: no schema cached, no delivery call made
NewNotion ==
    [db_properties |-> << >>, calls |-> 0, items |-> << >>, connected |-> FALSE,
     requests |-> << >>, processed |-> << >>, ret |-> 0, raised |-> FALSE,
     phase |-> "idle", i |-> 0]

\* DiscordDelivery.__init__: no delivery call made
NewDiscord ==
    [calls |-> 0, n |-> 0, embeds |-> << >>, posts |-> << >>, i |-> 0, phase |-> "idle",
     ret |-> FALSE]

IdleSinks == notion = NewNotion /\ discord = NewDiscord

\* no process shares the files
IdleProcs == procs = << >>

\* time passes: any later hour
Tick == \E u \in Later(now) : now' = u

----------------------------------------------------------------------------
(* SpecBudget: one BudgetManager at a time, called in any order while the   *)
(* clock advances; the process may end and a new instance load the file.    *)

InitBudget ==
    /\ now = T0
    /\ budget_file = NoFile
    /\ budget = load_budget(budget_file, now).data
    /\ IdleUsage
    /\ IdleHistory
    /\ IdleBrief
    /\ IdleClient
    /\ IdleSinks
    /\ IdleProcs
    /\ IdleNews
    /\ last = NoOp

BCheckBudget ==
    LET r == check_budget(budget, budget_file, now)
    IN /\ budget' = r.data
       /\ budget_file' = r.file
       /\ last' = Op("check_budget", now, budget, 0, r.ret)
       /\ UNCHANGED now

BRecordSpending ==
    \E amount \in Amounts :
        /\ budget.runs_this_month < MaxRecords
        /\ LET r == record_spending(budget, budget_file, amount, now)
           IN /\ budget' = r.data
              /\ budget_file' = r.file
              /\ last' = Op("record_spending", now, budget, amount, FALSE)
        /\ UNCHANGED now

\* a new process: BudgetManager() loads the file
BRestart ==
    /\ budget' = load_budget(budget_file, now).data
    /\ last' = Op("restart", now, budget, 0, FALSE)
    /\ UNCHANGED <<now, budget_file>>

BTick == Tick /\ UNCHANGED <<budgetVars, last>>

\* a BudgetManager on its own: nothing else moves
FrameBudget == UNCHANGED <<usageVars, historyVars, briefVars, newsVars, client, sinkVars, procs>>

NextBudget ==
    \/ BCheckBudget /\ FrameBudget
    \/ BRecordSpending /\ FrameBudget
    \/ BRestart /\ FrameBudget
    \/ BTick /\ FrameBudget

SpecBudget == InitBudget /\ [][NextBudget]_vars

----------------------------------------------------------------------------
(* SpecLimiter: one RateLimiter at a time, called in any order.             *)

InitLimiter ==
    /\ now = T0
    /\ usage_file = NoUsageFile
    /\ usage = load_usage(usage_file, now).data
    /\ IdleBudget
    /\ IdleHistory
    /\ IdleBrief
    /\ IdleClient
    /\ IdleSinks
    /\ IdleProcs
    /\ IdleNews
    /\ last = NoOp

LCanGenerateScript ==
    \E max_per_day \in 0..MaxLimit :
        LET r == can_generate_script(usage, usage_file, max_per_day, now)
        IN /\ usage' = r.data
           /\ usage_file' = r.file
           /\ last' = Op("can_generate_script", now, usage, max_per_day, r.ret)
           /\ UNCHANGED now

LRecordScriptGeneration ==
    /\ usage.scripts_today < MaxCalls
    /\ LET r == record_script_generation(usage, usage_file, now)
       IN /\ usage' = r.data
          /\ usage_file' = r.file
          /\ last' = Op("record_script_generation", now, usage, 0, FALSE)
    /\ UNCHANGED now

LCanFetchNews ==
    \E max_per_hour \in 0..MaxLimit :
        LET r == can_fetch_news(usage, usage_file, max_per_hour, now)
        IN /\ usage' = r.data
           /\ usage_file' = r.file
           /\ last' = Op("can_fetch_news", now, usage, max_per_hour, r.ret)
           /\ UNCHANGED now

LRecordNewsFetch ==
    /\ usage.news_fetches_this_hour < MaxCalls
    /\ LET r == record_news_fetch(usage, usage_file, now)
       IN /\ usage' = r.data
          /\ usage_file' = r.file
          /\ last' = Op("record_news_fetch", now, usage, 0, FALSE)
    /\ UNCHANGED now

LRestart ==
    /\ usage' = load_usage(usage_file, now).data
    /\ last' = Op("restart", now, usage, 0, FALSE)
    /\ UNCHANGED <<now, usage_file>>

LTick == Tick /\ UNCHANGED <<usageVars, last>>

\* a RateLimiter on its own: nothing else moves
FrameLimiter == UNCHANGED <<budgetVars, historyVars, briefVars, newsVars, client, sinkVars, procs>>

NextLimiter ==
    \/ LCanGenerateScript /\ FrameLimiter
    \/ LRecordScriptGeneration /\ FrameLimiter
    \/ LCanFetchNews /\ FrameLimiter
    \/ LRecordNewsFetch /\ FrameLimiter
    \/ LRestart /\ FrameLimiter
    \/ LTick /\ FrameLimiter

SpecLimiter == InitLimiter /\ [][NextLimiter]_vars

----------------------------------------------------------------------------
(* The research client as the daily briefing sees it *)

\* what the HTTP request of a query can come to
HttpOutcomes == {"ok", "timeout", "connection_error", "http_5xx", "http_4xx", "bad_body"}

\* a JSON value read as a number: a number, or a text that is none
Number(v) == [kind |-> "num", v |-> v]
NotANumber == [kind |-> "text", v |-> 0]

\* one element of the parsed array: form is "object" for a JSON object and the
\* JSON type otherwise, category is "null" for a JSON null
RawItem(title, category, form, virality_score) ==
    [title |-> title, category |-> category, form |-> form,
     virality_score |-> virality_score]

\* an element as the prompt asks for it
Item(title, category) == RawItem(title, category, "object", Number(8))

\* the arrays the research API answers with; _parse_json_response returns
\* whatever json.loads made of the content
Responses ==
    { << >>,
      <<Item("a", "News")>>,
      <<Item("a", "News"), Item("b", "Question")>>,
      <<Item("c", "null")>>,
      <<RawItem("c", "News", "object", NotANumber), RawItem("", "", "string", Number(8))>> }

\* cost = tokens * 0.000001, whatever the tokens are
Costs == Amounts

QueryResult(items, cost) == [items |-> items, cost |-> cost]

\* @retry(stop=stop_after_attempt(2), ...)
STOP_AFTER_ATTEMPT == 2

\* tenacity: what the decorator does when an execution of the body ends
retrying(attempt_number, raised) ==
    IF ~raised THEN "return"
    ELSE IF attempt_number >= STOP_AFTER_ATTEMPT THEN "RetryError"
    ELSE "again"

----------------------------------------------------------------------------
(* NotionDelivery *)

\* the property names _build_simple_properties looks for, and "Approved"
W_Title == <<"T", "i", "t", "l", "e">>
W_Name == <<"N", "a", "m", "e">>
W_Source == <<"S", "o", "u", "r", "c", "e">>
W_Link == <<"L", "i", "n", "k">>
W_Score == <<"S", "c", "o", "r", "e">>
W_Status == <<"S", "t", "a", "t", "u", "s">>
W_Category == <<"C", "a", "t", "e", "g", "o", "r", "y">>
W_DateAdded == <<"D", "a", "t", "e", " ", "A", "d", "d", "e", "d">>
W_Approved == <<"A", "p", "p", "r", "o", "v", "e", "d">>

\* a NewsItem as the sinks read it; source and link may be None ("null"), score
\* is a number or a text that is no number, blocks tells whether content_blocks
\* is given
NewsItem(id, title, source, link, score, category, blocks) ==
    [id |-> id, title |-> title, source |-> source, link |-> link, score |-> score,
     category |-> category, blocks |-> blocks]

\* one property of the database schema, as GET databases/{id} lists them
Property(name, type) == [name |-> name, type |-> type]

\* NotionDelivery._find_property over the cached schema (a dict in the order
\* the API listed it): the first name equal after strip().lower(), or None
RECURSIVE find_property(_, _)
find_property(db_properties, name) ==
    IF db_properties = << >> THEN [found |-> FALSE, name |-> << >>, type |-> "none"]
    ELSE IF str_lower(str_strip(Head(db_properties).name)) = str_lower(str_strip(name))
         THEN Head(db_properties) @@ [found |-> TRUE]
         ELSE find_property(Tail(db_properties), name)

\* one entry of the properties dict: its key and the value's kind and content
Entry(key, kind, value) == [key |-> key, kind |-> kind, value |-> value]

\* the score property in tenths: float(score), above 10 divided by 10, clamped
\* to 1.0..10.0; 5.0 when the score is no number
score_number(score) ==
    IF score.kind # "num" THEN 50
    ELSE LET v10 == IF score.v > 10 THEN score.v ELSE score.v * 10
         IN IF v10 < 10 THEN 10 ELSE IF v10 > 100 THEN 100 ELSE v10

\* a mapper that fills Title and Score whatever the schema holds
build_simple_properties_FixedNames(item, db_properties) ==
    [raised |-> FALSE,
     properties |-> {Entry(W_Title, "title", item.title),
                     Entry(W_Score, "number", score_number(item.score))}]

\* a mapper that fills the Approved checkbox where the schema has one
build_simple_properties_WithApproved(item, db_properties) ==
    LET p_title == find_property(db_properties, W_Title)
        prop_approved == find_property(db_properties, W_Approved)
    IN [raised |-> FALSE,
        properties |->
            {Entry(IF p_title.found THEN p_title.name ELSE W_Title, "title", item.title)}
            \cup (IF prop_approved.found
                  THEN {Entry(prop_approved.name, "checkbox", "false")} ELSE {})]

\* NotionDelivery._build_simple_properties: item.source[:30] raises on None
build_simple_properties(item, db_properties) ==
    LET p_title == find_property(db_properties, W_Title)
        p_name == find_property(db_properties, W_Name)
        title_prop_name == IF p_title.found THEN p_title.name
                           ELSE IF p_name.found THEN p_name.name ELSE W_Title
        prop_source == find_property(db_properties, W_Source)
        prop_link == find_property(db_properties, W_Link)
        prop_score == find_property(db_properties, W_Score)
        prop_status == find_property(db_properties, W_Status)
        prop_cat == find_property(db_properties, W_Category)
        prop_date == find_property(db_properties, W_DateAdded)
        category == IF item.category = "ai_news" THEN "AI" ELSE "Trending"
        properties ==
            {Entry(title_prop_name, "title", item.title)}
            \cup (IF prop_source.found
                  THEN {Entry(prop_source.name, "select", item.source)} ELSE {})
            \cup (IF prop_link.found /\ item.link # "null"
                  THEN {Entry(prop_link.name, "url", item.link)} ELSE {})
            \cup (IF prop_score.found
                  THEN {Entry(prop_score.name, "number", score_number(item.score))}
                  ELSE {})
            \cup (IF prop_status.found /\ prop_status.type \in {"status", "select"}
                  THEN {Entry(prop_status.name, prop_status.type, "New")} ELSE {})
            \cup (IF prop_cat.found /\ prop_cat.type \in {"select", "multi_select"}
                  THEN {Entry(prop_cat.name, prop_cat.type, category)} ELSE {})
            \cup (IF prop_date.found
                  THEN {Entry(prop_date.name, "date", "published")} ELSE {})
    IN IF prop_source.found /\ item.source = "null"
       THEN [raised |-> TRUE, properties |-> {}]
       ELSE [raised |-> FALSE, properties |-> properties]

\* a request NotionDelivery._make_request sent, GET databases/{id} or POST
\* pages for the item at position item of the batch, and the answer it got
Request(method, item, properties, answer) ==
    [method |-> method, item |-> item, properties |-> properties, answer |-> answer]

\* the body of add_news_item for the item at position i: the page is built,
\* then posted; _make_request returns None on every failure
add_news_item_body(item, i, db_properties, http) ==
    LET b == build_simple_properties(item, db_properties)
    IN IF b.raised
       THEN [raised |-> TRUE, ret |-> FALSE, requests |-> << >>]
       ELSE [raised |-> FALSE, ret |-> (http = "ok"),
             requests |-> <<Request("POST", i, b.properties, http)>>]

\* add_news_item under @retry(stop=stop_after_attempt(2)): the body runs again
\* when it raised, and RetryError leaves the second failure
add_news_item(item, i, db_properties, http) ==
    LET first == add_news_item_body(item, i, db_properties, http)
    IN IF retrying(1, first.raised) = "return" THEN first
       ELSE LET second == add_news_item_body(item, i, db_properties, http)
                both == first.requests \o second.requests
            IN IF retrying(2, second.raised) = "return"
               THEN [second EXCEPT !.requests = both]
               ELSE [raised |-> TRUE, ret |-> FALSE, requests |-> both]

\* deliver_daily_ideas(items) is entered
call_deliver(n, items) ==
    [n EXCEPT !.calls = @ + 1, !.items = items, !.connected = FALSE,
              !.requests = << >>, !.processed = << >>, !.ret = 0, !.raised = FALSE,
              !.phase = "test_connection", !.i = 1]

\* the answer to GET databases/{id}: the schema, or a failure
Answer(ok, properties) == [ok |-> ok, properties |-> properties]

\* a failed test_connection not ending the call
test_connection_NoGate(n, answer) ==
    LET get == Request("GET", 0, {}, IF answer.ok THEN "ok" ELSE "failed")
    IN [n EXCEPT !.db_properties = IF answer.ok THEN answer.properties ELSE @,
                 !.connected = answer.ok,
                 !.requests = Append(@, get),
                 !.phase = IF n.items = << >> THEN "returned" ELSE "loop"]

\* "if not self.test_connection(): return 0": the schema is cached when the
\* request succeeds, and the loop over the items follows
test_connection(n, answer) ==
    LET get == Request("GET", 0, {}, IF answer.ok THEN "ok" ELSE "failed")
    IN IF ~answer.ok
       THEN [n EXCEPT !.requests = Append(@, get), !.phase = "returned", !.ret = 0]
       ELSE [n EXCEPT !.db_properties = answer.properties,
                      !.connected = TRUE,
                      !.requests = Append(@, get),
                      !.phase = IF n.items = << >> THEN "returned" ELSE "loop"]

\* what one turn of the loop comes to, given what add_news_item did
AfterItem(n, r) ==
    LET added_ok == ~r.raised /\ r.ret
    IN [n EXCEPT !.ret = IF added_ok THEN @ + 1 ELSE @,
                 !.requests = @ \o r.requests,
                 !.processed = Append(@, n.i),
                 !.i = @ + 1,
                 !.phase = IF n.i >= Len(n.items) THEN "returned" ELSE "loop"]

\* the loop of deliver_daily_ideas ending at the first item that is not added
deliver_item_StopsAtFailure(n, http) ==
    LET r == add_news_item(n.items[n.i], n.i, n.db_properties, http)
        n1 == AfterItem(n, r)
    IN IF n1.ret = n.ret THEN [n1 EXCEPT !.phase = "returned"] ELSE n1

\* one turn of the loop of deliver_daily_ideas: an exception of add_news_item
\* is caught and the loop continues; after the last item success_count is returned
deliver_item(n, http) ==
    AfterItem(n, add_news_item(n.items[n.i], n.i, n.db_properties, http))

----------------------------------------------------------------------------
(* DailyBriefing: the process of scripts/daily_briefing.py                   *)

DAILY_RUN_LIMIT == 4
HOURLY_FETCH_LIMIT == 15
PASSES == 3

\* the times the clock is seen to advance in one behaviour
MaxTicks == 1

IsQuestion(item) == item.category = "Question"

\* the NewsItem made of a regular raw item at time t: its id is made of the
\* time and of the hash of the title
NewsItemOf(item, t) ==
    [id |-> <<"idea", t, item.title>>, title |-> item.title, category |-> "ai_research",
     n |-> 0]

\* the consolidated "Daily Questions" item
QuestionsItem(questions_buffer, t) ==
    [id |-> <<"questions", t>>, title |-> "digest", category |-> "daily_questions",
     n |-> Len(questions_buffer)]

NotIsQuestion(item) == ~IsQuestion(item)

\* the exception the loop of step 3 raises at one raw item, "none" if it passes:
\* item.get on what is no object, "Question" in None, int() of what is no number
transform_raises(item) ==
    IF item.form # "object" THEN "AttributeError"
    ELSE IF item.category = "null" THEN "TypeError"
    ELSE IF ~IsQuestion(item) /\ item.virality_score.kind # "num" THEN "ValueError"
    ELSE "none"

\* steps 3 and 4 with a page of its own for every question
NotionItems_OnePerQuestion(all_raw_items, t) ==
    LET regular == SelectSeq(all_raw_items, NotIsQuestion)
        questions_buffer == SelectSeq(all_raw_items, IsQuestion)
    IN [i \in 1..Len(regular) |-> NewsItemOf(regular[i], t)]
           \o [i \in 1..Len(questions_buffer) |-> QuestionsItem(<<questions_buffer[i]>>, t)]

\* steps 3 and 4 of run: the regular items in order, then the digest if any question
NotionItems(all_raw_items, t) ==
    LET regular == SelectSeq(all_raw_items, NotIsQuestion)
        questions_buffer == SelectSeq(all_raw_items, IsQuestion)
        mapped == [i \in 1..Len(regular) |-> NewsItemOf(regular[i], t)]
    IN IF questions_buffer # << >>
       THEN Append(mapped, QuestionsItem(questions_buffer, t))
       ELSE mapped

PassEntry(outcome, spend0, runs0, fetch0, spend1, runs1, fetch1, nitems) ==
    [outcome |-> outcome, spend0 |-> spend0, runs0 |-> runs0, fetch0 |-> fetch0,
     spend1 |-> spend1, runs1 |-> runs1, fetch1 |-> fetch1, nitems |-> nitems]

\* in the briefing: the operation a component has just completed, and whether it
\* changed the component's state
Done(name, changed) == Op(name, NoTime, BudgetBlank("object"), IF changed THEN 1 ELSE 0, FALSE)

\* the process ends: its memory is gone, the files stay
Exit(stopped) ==
    /\ pc' = "off"
    /\ last' = NoOp
    /\ run' = [NoRun EXCEPT !.n = run.n, !.ticks = run.ticks, !.stopped = stopped]
    /\ budget' = BudgetBlank("object")
    /\ usage' = UsageBlank("object")
    /\ history' = HistoryValue("ok", << >>)

\* DailyBriefing() and the head of run(): the three components load their files,
\* rate_limiter.get_status() runs _reset_if_needed
Start ==
    /\ pc = "off"
    /\ run.n = 0
    /\ LET b == load_budget(budget_file, now)
           h == load_history(history_file)
           u == load_usage(usage_file, now)
           s == reset_if_needed(u.data, usage_file, now)
       IN /\ budget' = b.data
          /\ history' = h.data
          /\ usage' = s.data
          /\ usage_file' = s.file
          /\ run' = [NoRun EXCEPT !.n = run.n + 1, !.ticks = run.ticks,
                                 !.hist0 = h.data.titles,
                                 !.start = [budget |-> b.data, usage |-> u.data,
                                            history_file |-> history_file]]
    /\ pc' = "budget_gate"
    /\ last' = Done("construct", FALSE)
    /\ UNCHANGED <<now, budget_file, history_file>>

\* 1. Budget Check
BudgetGate ==
    /\ pc = "budget_gate"
    /\ LET r == check_budget(budget, budget_file, now)
       IN /\ budget' = r.data
          /\ budget_file' = r.file
          /\ last' = Done("check_budget", budget.current_month # MonthKey(now))
          /\ IF r.ret
             THEN pc' = "daily_gate" /\ run' = run
             ELSE pc' = "done" /\ run' = [run EXCEPT !.stopped = "budget"]
    /\ UNCHANGED <<now, usageVars, historyVars>>

\* the run attempt recorded before the daily limit is compared
DailyGate_RecordsFirst ==
    /\ pc = "daily_gate"
    /\ LET r == can_generate_script(usage, usage_file, DAILY_RUN_LIMIT, now)
           r2 == record_script_generation(r.data, r.file, now)
       IN /\ usage' = r2.data
          /\ usage_file' = r2.file
          /\ last' = Done("can_generate_script", TRUE)
          /\ IF r.ret
             THEN pc' = "record_run" /\ run' = run
             ELSE pc' = "done" /\ run' = [run EXCEPT !.stopped = "daily_limit"]
    /\ UNCHANGED <<now, budgetVars, historyVars>>

\* 2. Rate Limit Check
DailyGate ==
    /\ pc = "daily_gate"
    /\ LET r == can_generate_script(usage, usage_file, DAILY_RUN_LIMIT, now)
       IN /\ usage' = r.data
          /\ usage_file' = r.file
          /\ last' = Done("can_generate_script", TRUE)
          /\ IF r.ret
             THEN pc' = "record_run" /\ run' = run
             ELSE pc' = "done" /\ run' = [run EXCEPT !.stopped = "daily_limit"]
    /\ UNCHANGED <<now, budgetVars, historyVars>>

RecordRun ==
    /\ pc = "record_run"
    /\ LET r == record_script_generation(usage, usage_file, now)
       IN /\ usage' = r.data
          /\ usage_file' = r.file
          /\ last' = Done("record_script_generation", TRUE)
    /\ pc' = "pass"
    /\ run' = [run EXCEPT !.passNo = 1]
    /\ UNCHANGED <<now, budgetVars, historyVars>>

\* _run_research_pass returned items: the run extends all_raw_items and goes on
PassReturns(r, outcome, items, spend0, runs0, fetch0, b, u) ==
    [r EXCEPT !.all_raw_items = @ \o items,
              !.result = << >>,
              !.passNo = @ + 1,
              !.passLog = Append(@, PassEntry(outcome, spend0, runs0, fetch0,
                                              b.total_spend, b.runs_this_month,
                                              u.news_fetches_this_hour, Len(items)))]

AfterPass(r) == IF r.passNo > PASSES THEN "transform" ELSE "pass"

\* _run_research_pass up to the rate limit gate
PassGate ==
    /\ pc = "pass"
    /\ LET r == can_fetch_news(usage, usage_file, HOURLY_FETCH_LIMIT, now)
       IN /\ usage' = r.data
          /\ usage_file' = r.file
          /\ last' = Done("can_fetch_news", TRUE)
          /\ IF r.ret
             THEN /\ pc' = "query"
                  /\ run' = [run EXCEPT !.result =
                                <<[spend0 |-> budget.total_spend,
                                   runs0 |-> budget.runs_this_month,
                                   fetch0 |-> r.data.news_fetches_this_hour]>>]
             ELSE LET r1 == PassReturns(run, "blocked", << >>, budget.total_spend,
                                        budget.runs_this_month,
                                        r.data.news_fetches_this_hour, budget, r.data)
                  IN run' = r1 /\ pc' = AfterPass(r1)
    /\ UNCHANGED <<now, budgetVars, historyVars>>

\* a failed query ending the run instead of the pass
QueryNull_Abort ==
    /\ pc = "query"
    /\ pc' = "done"
    /\ run' = [run EXCEPT !.stopped = "query_failed"]
    /\ UNCHANGED <<now, budgetVars, usageVars, historyVars, last>>

\* the query returned None: "No response from Perplexity", the pass returns []
QueryNull ==
    /\ pc = "query"
    /\ \E http \in HttpOutcomes \ {"ok"} :
          LET s == run.result[1]
              r1 == PassReturns(run, "null", << >>, s.spend0, s.runs0, s.fetch0,
                                budget, usage)
          IN run' = r1 /\ pc' = AfterPass(r1)
    /\ UNCHANGED <<now, budgetVars, usageVars, historyVars, last>>

\* the query returned content and cost
QueryOk ==
    /\ pc = "query"
    /\ \E items \in Responses, cost \in Costs :
          run' = [run EXCEPT !.result = Append(@, QueryResult(items, cost))]
    /\ pc' = "record_fetch"
    /\ UNCHANGED <<now, budgetVars, usageVars, historyVars, last>>

\* "Record success"
RecordFetch ==
    /\ pc = "record_fetch"
    /\ LET r == record_news_fetch(usage, usage_file, now)
       IN /\ usage' = r.data
          /\ usage_file' = r.file
          /\ last' = Done("record_news_fetch", TRUE)
    /\ pc' = "record_cost"
    /\ UNCHANGED <<now, budgetVars, historyVars, run>>

\* "Record cost" and return the parsed items
RecordCost ==
    /\ pc = "record_cost"
    /\ LET s == run.result[1]
           q == run.result[2]
           r == record_spending(budget, budget_file, q.cost, now)
           r1 == PassReturns(run, "ok", q.items, s.spend0, s.runs0, s.fetch0,
                             r.data, usage)
       IN /\ budget' = r.data
          /\ budget_file' = r.file
          /\ last' = Done("record_spending", TRUE)
          /\ run' = r1
          /\ pc' = AfterPass(r1)
    /\ UNCHANGED <<now, usageVars, historyVars>>

\* 3. and 4.: nothing found ends the run; otherwise the items for Notion are
\* built, outside any try: an exception of the loop leaves run() and the process
Transform ==
    /\ pc = "transform"
    /\ IF run.all_raw_items = << >>
       THEN pc' = "done" /\ run' = [run EXCEPT !.stopped = "no_ideas"]
       ELSE IF \E i \in DOMAIN run.all_raw_items :
                   transform_raises(run.all_raw_items[i]) # "none"
       THEN pc' = "done" /\ run' = [run EXCEPT !.stopped = "uncaught_exception"]
       ELSE /\ pc' = "deliver"
            /\ run' = [run EXCEPT !.notion_items = NotionItems(run.all_raw_items, now)]
    /\ UNCHANGED <<now, budgetVars, usageVars, historyVars, last>>

\* 5. Delivery, as the briefing sees the sink: one deliver_daily_ideas call,
\* which connects or not and reports how many pages it created
Deliver ==
    /\ pc = "deliver"
    /\ \E connected \in BOOLEAN :
          \E success_count \in IF connected THEN 0..Len(run.notion_items) ELSE {0} :
              /\ run' = [run EXCEPT !.success_count = success_count]
              /\ notion' = [call_deliver(notion, run.notion_items) EXCEPT
                                !.phase = "idle", !.connected = connected,
                                !.ret = success_count]
    /\ pc' = "history"
    /\ UNCHANGED <<now, budgetVars, usageVars, historyVars, last>>

\* 6. Update History
UpdateHistory ==
    /\ pc = "history"
    /\ IF run.success_count > 0
       THEN LET r == add_ideas(history, history_file, run.all_raw_items)
            IN /\ history' = r.data
               /\ history_file' = r.file
               /\ last' = Done("add_ideas", TRUE)
       ELSE UNCHANGED <<historyVars, last>>
    /\ pc' = "done"
    /\ run' = [run EXCEPT !.stopped = "complete"]
    /\ UNCHANGED <<now, budgetVars, usageVars>>

\* the process returns from run() and exits
Finish ==
    /\ pc = "done"
    /\ Exit(run.stopped)
    /\ UNCHANGED <<now, budget_file, usage_file, history_file>>

\* the process is killed between two operations
Crash ==
    /\ pc \notin {"off", "done"}
    /\ Exit("crashed")
    /\ UNCHANGED <<now, budget_file, usage_file, history_file>>

\* time passes between two processes and while a research request is in flight:
\* the next hour, the next day or the next month begins
Wait ==
    /\ pc \in {"off", "query"}
    /\ run.ticks < MaxTicks
    /\ \E u \in Soon(now) : now' = u
    /\ run' = [run EXCEPT !.ticks = @ + 1]
    /\ UNCHANGED <<budgetVars, usageVars, historyVars, pc, last>>

\* The files the process finds are those earlier processes left.  Each of these
\* states is left by complete earlier runs in the hour the clock starts in:
\*   nothing yet (a fresh checkout);
\*   one run whose first pass found <<a>> for 499 and whose other queries failed;
\*   one run whose first two passes found <<a>> for 499 and for 1 (the budget is spent);
\*   DAILY_RUN_LIMIT runs whose queries all failed (the day's runs are used up).
RECURSIVE RunsRecorded(_)
RunsRecorded(k) ==
    IF k = 0 THEN empty_usage(T0)
    ELSE record_script_generation(RunsRecorded(k - 1), NoUsageFile, T0).data

RECURSIVE FetchesRecorded(_, _)
FetchesRecorded(u, k) ==
    IF k = 0 THEN u ELSE record_news_fetch(FetchesRecorded(u, k - 1), NoUsageFile, T0).data

RECURSIVE SpendRecorded(_)
SpendRecorded(k) ==
    IF k = 0 THEN empty_budget(T0)
    ELSE record_spending(SpendRecorded(k - 1), NoFile,
                         IF k = 1 THEN MONTHLY_LIMIT - 1 ELSE 1, T0).data

Found(k) == [i \in 1..k |-> Item("a", "News")]

FilesLeft(spends, runs) ==
    [budget_file |-> IF spends = 0 THEN NoFile ELSE save_budget(SpendRecorded(spends)),
     usage_file |-> IF runs = 0 THEN NoUsageFile
                    ELSE save_usage(FetchesRecorded(RunsRecorded(runs), spends)),
     history_file |-> IF spends = 0 THEN NoHistoryFile
                      ELSE add_ideas(HistoryValue("ok", << >>), NoHistoryFile,
                                     Found(spends)).file]

EarlierRuns ==
    {FilesLeft(0, 0), FilesLeft(1, 1), FilesLeft(2, 1), FilesLeft(0, DAILY_RUN_LIMIT)}

Init ==
    /\ now = T0
    /\ \E f \in EarlierRuns :
          /\ budget_file = f.budget_file
          /\ usage_file = f.usage_file
          /\ history_file = f.history_file
    /\ budget = BudgetBlank("object")
    /\ usage = UsageBlank("object")
    /\ history = HistoryValue("ok", << >>)
    /\ IdleBrief
    /\ IdleClient
    /\ IdleSinks
    /\ IdleProcs
    /\ IdleNews
    /\ last = NoOp

\* the briefing uses neither the NewsAggregator nor, in this view, the state of
\* the research client
Frame == UNCHANGED <<newsVars, client, discord, procs>>

\* the steps of the run other than the delivery
FrameRun == Frame /\ UNCHANGED notion

Next ==
    \/ Start /\ FrameRun
    \/ BudgetGate /\ FrameRun
    \/ DailyGate /\ FrameRun
    \/ RecordRun /\ FrameRun
    \/ PassGate /\ FrameRun
    \/ QueryNull /\ FrameRun
    \/ QueryOk /\ FrameRun
    \/ RecordFetch /\ FrameRun
    \/ RecordCost /\ FrameRun
    \/ Transform /\ FrameRun
    \/ Deliver /\ Frame
    \/ UpdateHistory /\ FrameRun
    \/ Finish /\ FrameRun
    \/ Crash /\ FrameRun
    \/ Wait /\ FrameRun

Spec == Init /\ [][Next]_vars

----------------------------------------------------------------------------
(* SpecHistory: one HistoryManager and one NewsAggregator, each given batch  *)
(* after batch of new titles; the k-th title a history is given is k.        *)

\* titles given to one history in one behaviour
MaxAdded == 104

BatchSizes == {0, 1, 8, MAX_HISTORY + 1, NEWS_HISTORY_CAP + 1}

\* the k-th idea given to the HistoryManager, the k-th news title
IdeaNo(k) == Item(ToString(k), "News")
NewsTitleNo(k) == <<"N", ToString(k)>>

\* an idea without a title
Untitled == Item("", "News")

InitHistory ==
    /\ now = T0
    /\ history_file = NoHistoryFile
    /\ history = load_history(history_file).data
    /\ news_file = NoNewsFile
    /\ news = load_news_history(news_file).data
    /\ added = NoneAdded
    /\ IdleBudget
    /\ IdleUsage
    /\ IdleBrief
    /\ IdleClient
    /\ IdleSinks
    /\ IdleProcs
    /\ last = NoOp

HAddIdeas ==
    \E n \in BatchSizes, untitled \in BOOLEAN :
        /\ added.hist + n <= MaxAdded
        /\ LET titled == [i \in 1..n |-> IdeaNo(added.hist + i)]
               ideas == IF untitled THEN <<Untitled>> \o titled ELSE titled
               r == add_ideas(history, history_file, ideas)
           IN /\ history' = r.data
              /\ history_file' = r.file
        /\ added' = [added EXCEPT !.hist = @ + n]
        /\ last' = Done("add_ideas", TRUE)
        /\ UNCHANGED <<news, news_file>>

NSaveHistory ==
    \E n \in BatchSizes :
        /\ added.news + n <= MaxAdded
        /\ LET titles == [i \in 1..n |-> NewsTitleNo(added.news + i)]
               r == news_save_history(news, news_file, titles, now)
           IN /\ news' = r.data
              /\ news_file' = r.file
        /\ added' = [added EXCEPT !.news = @ + n]
        /\ last' = Done("save_history", TRUE)
        /\ UNCHANGED <<history, history_file>>

\* a new process: both components load their files
HRestart ==
    /\ history' = load_history(history_file).data
    /\ news' = load_news_history(news_file).data
    /\ last' = Done("restart", FALSE)
    /\ UNCHANGED <<history_file, news_file, added>>

FrameHistory == UNCHANGED <<now, budgetVars, usageVars, briefVars, client, sinkVars, procs>>

NextHistory ==
    \/ HAddIdeas /\ FrameHistory
    \/ NSaveHistory /\ FrameHistory
    \/ HRestart /\ FrameHistory

SpecHistory == InitHistory /\ [][NextHistory]_vars

----------------------------------------------------------------------------
(* SpecCorrupt: the four components constructed over damaged files, then     *)
(* called in any order.                                                      *)

\* operations one instance completes in one behaviour
MaxOps == 2

\* the operation last attempted and whether an exception left it
Outcome(name, raised) == [op |-> name, raised |-> raised]

\* what a damaged file can be: unreadable, not JSON, or JSON of another shape
DamagedKinds == {"unreadable", "unparseable"}

DamagedBudgetFiles ==
    {[kind |-> k, doc |-> BudgetBlank("object")] : k \in DamagedKinds}
        \cup {[kind |-> "json", doc |-> BudgetBlank(s)] : s \in {"array", "object"}}

DamagedUsageFiles ==
    {[kind |-> k, doc |-> UsageBlank("object")] : k \in DamagedKinds}
        \cup {[kind |-> "json", doc |-> UsageBlank(s)] : s \in {"array", "object"}}

DamagedHistoryFiles ==
    {[kind |-> k, doc |-> HistoryValue("ok", << >>)] : k \in DamagedKinds}
        \cup {[kind |-> "json", doc |-> HistoryValue("object", << >>)]}

DamagedNewsFiles ==
    {[kind |-> k, doc |-> empty_news] : k \in DamagedKinds}
        \cup {[kind |-> "json", doc |-> NewsValue(s, << >>, NoTime)] : s \in {"array", "object"}}

InitCorrupt ==
    /\ now = T0
    /\ budget_file \in DamagedBudgetFiles
    /\ usage_file \in DamagedUsageFiles
    /\ history_file \in DamagedHistoryFiles
    /\ news_file \in DamagedNewsFiles
    /\ budget = BudgetBlank("object")
    /\ usage = UsageBlank("object")
    /\ history = HistoryValue("ok", << >>)
    /\ news = empty_news
    /\ added = NoneAdded
    /\ IdleBrief
    /\ IdleClient
    /\ IdleSinks
    /\ IdleProcs
    /\ last = Outcome("none", FALSE)

\* BudgetManager(), RateLimiter(), HistoryManager(), NewsAggregator(): an
\* exception in a constructor ends the process
CConstruct ==
    /\ pc = "off"
    /\ LET b == load_budget(budget_file, now)
           u == load_usage(usage_file, now)
           h == load_history(history_file)
           n == load_news_history(news_file)
           raised == b.raised \/ u.raised \/ h.raised \/ n.raised
       IN /\ last' = Outcome("construct", raised)
          /\ IF raised
             THEN UNCHANGED <<pc, budget, usage, history, news>>
             ELSE /\ pc' = "on"
                  /\ budget' = b.data
                  /\ usage' = u.data
                  /\ history' = h.data
                  /\ news' = n.data
    /\ UNCHANGED <<now, budget_file, usage_file, history_file, news_file, added, run, client, sinkVars, procs>>

CCheckBudget ==
    /\ pc = "on"
    /\ LET r == check_budget(budget, budget_file, now)
       IN /\ budget' = r.data
          /\ budget_file' = r.file
          /\ last' = Outcome("check_budget", r.raised)
    /\ UNCHANGED <<now, usageVars, historyVars, newsVars, briefVars, client, sinkVars, procs>>

CRecordSpending ==
    /\ pc = "on"
    /\ budget.runs_this_month < MaxOps
    /\ \E amount \in Amounts :
        LET r == record_spending(budget, budget_file, amount, now)
        IN /\ budget' = r.data
           /\ budget_file' = r.file
           /\ last' = Outcome("record_spending", r.raised)
    /\ UNCHANGED <<now, usageVars, historyVars, newsVars, briefVars, client, sinkVars, procs>>

CCanGenerateScript ==
    /\ pc = "on"
    /\ LET r == can_generate_script(usage, usage_file, DAILY_RUN_LIMIT, now)
       IN /\ usage' = r.data
          /\ usage_file' = r.file
          /\ last' = Outcome("can_generate_script", r.raised)
    /\ UNCHANGED <<now, budgetVars, historyVars, newsVars, briefVars, client, sinkVars, procs>>

CRecordScriptGeneration ==
    /\ pc = "on"
    /\ usage.scripts_today < MaxOps
    /\ LET r == record_script_generation(usage, usage_file, now)
       IN /\ usage' = r.data
          /\ usage_file' = r.file
          /\ last' = Outcome("record_script_generation", r.raised)
    /\ UNCHANGED <<now, budgetVars, historyVars, newsVars, briefVars, client, sinkVars, procs>>

CCanFetchNews ==
    /\ pc = "on"
    /\ LET r == can_fetch_news(usage, usage_file, HOURLY_FETCH_LIMIT, now)
       IN /\ usage' = r.data
          /\ usage_file' = r.file
          /\ last' = Outcome("can_fetch_news", r.raised)
    /\ UNCHANGED <<now, budgetVars, historyVars, newsVars, briefVars, client, sinkVars, procs>>

CRecordNewsFetch ==
    /\ pc = "on"
    /\ usage.news_fetches_this_hour < MaxOps
    /\ LET r == record_news_fetch(usage, usage_file, now)
       IN /\ usage' = r.data
          /\ usage_file' = r.file
          /\ last' = Outcome("record_news_fetch", r.raised)
    /\ UNCHANGED <<now, budgetVars, historyVars, newsVars, briefVars, client, sinkVars, procs>>

CGetRecentTitles ==
    /\ pc = "on"
    /\ last' = Outcome("get_recent_titles", get_recent_titles(history).raised)
    /\ UNCHANGED <<now, budgetVars, usageVars, historyVars, newsVars, briefVars, client, sinkVars, procs>>

CAddIdeas ==
    /\ pc = "on"
    /\ added.hist < MaxOps
    /\ LET r == add_ideas(history, history_file, <<IdeaNo(added.hist + 1)>>)
       IN /\ history' = r.data
          /\ history_file' = r.file
          /\ added' = IF r.raised THEN added ELSE [added EXCEPT !.hist = @ + 1]
          /\ last' = Outcome("add_ideas", r.raised)
    /\ UNCHANGED <<now, budgetVars, usageVars, news, news_file, briefVars, client, sinkVars, procs>>

CIsDuplicate ==
    /\ pc = "on"
    /\ last' = Outcome("is_duplicate", is_duplicate(news, NewsTitleNo(1)).raised)
    /\ UNCHANGED <<now, budgetVars, usageVars, historyVars, newsVars, briefVars, client, sinkVars, procs>>

CSaveHistory ==
    /\ pc = "on"
    /\ added.news < MaxOps
    /\ LET r == news_save_history(news, news_file, <<NewsTitleNo(added.news + 1)>>, now)
       IN /\ news' = r.data
          /\ news_file' = r.file
          /\ added' = IF r.raised THEN added ELSE [added EXCEPT !.news = @ + 1]
          /\ last' = Outcome("save_history", r.raised)
    /\ UNCHANGED <<now, budgetVars, usageVars, history, history_file, briefVars, client, sinkVars, procs>>

NextCorrupt ==
    \/ CConstruct
    \/ CCheckBudget
    \/ CRecordSpending
    \/ CCanGenerateScript
    \/ CRecordScriptGeneration
    \/ CCanFetchNews
    \/ CRecordNewsFetch
    \/ CGetRecentTitles
    \/ CAddIdeas
    \/ CIsDuplicate
    \/ CSaveHistory

SpecCorrupt == InitCorrupt /\ [][NextCorrupt]_vars

----------------------------------------------------------------------------
(* SpecQuery: the two research clients, PerplexityDiscovery._query_perplexity *)
(* and UltimateAIDiscovery._query under their tenacity retry decorator.       *)

\* queries one client makes in one behaviour
MaxQueries == 2

\* the failures a later attempt could get around
Transient == {"timeout", "connection_error", "http_5xx"}

\* the body of _query_perplexity / _query, one execution: without a key None is
\* returned before any request; requests.post, raise_for_status and
\* response.json() run inside try, and except Exception returns None
query_body(c, name, http, cost) ==
    IF ~c.api_key
    THEN [raised |-> FALSE, ret |-> "null", c |-> c]
    ELSE IF http = "ok"
         THEN [raised |-> FALSE, ret |-> "dict",
               c |-> [c EXCEPT !.requests = @ + 1, !.outcome = http,
                               !.session_cost = @ + cost,
                               !.query_count = IF name = "ultimate" THEN @ + 1 ELSE @]]
         ELSE [raised |-> FALSE, ret |-> "null",
               c |-> [c EXCEPT !.requests = @ + 1, !.outcome = http]]

InitQuery ==
    /\ now = T0
    /\ client \in [Clients -> {NewClient(k) : k \in BOOLEAN}]
    /\ IdleSinks
    /\ IdleProcs
    /\ IdleBudget
    /\ IdleUsage
    /\ IdleHistory
    /\ IdleNews
    /\ pc = "off" /\ run = NoRun
    /\ last = NoOp

\* a caller enters the decorated method: the first attempt begins
QCall(name) ==
    /\ client[name].phase = "idle"
    /\ client[name].calls < MaxQueries
    /\ client' = [client EXCEPT ![name] =
                     [@ EXCEPT !.phase = "calling", !.attempt_number = 1, !.requests = 0,
                               !.outcome = "none", !.result = "none", !.calls = @ + 1]]

\* one execution of the body, and the decorator's decision on how it ended
QAttempt(name) ==
    /\ client[name].phase = "calling"
    /\ \E http \in HttpOutcomes, cost \in Costs :
          LET r == query_body(client[name], name, http, cost)
              next == retrying(client[name].attempt_number, r.raised)
          IN client' = [client EXCEPT ![name] =
                 CASE next = "return" -> [r.c EXCEPT !.phase = "idle", !.result = r.ret]
                   [] next = "again" -> [r.c EXCEPT !.attempt_number = @ + 1]
                   [] OTHER -> [r.c EXCEPT !.phase = "idle", !.result = "RetryError"]]

FrameQuery ==
    UNCHANGED <<now, budgetVars, usageVars, historyVars, briefVars, newsVars, last,
                sinkVars, procs>>

NextQuery ==
    \/ \E name \in Clients : QCall(name) /\ FrameQuery
    \/ \E name \in Clients : QAttempt(name) /\ FrameQuery

SpecQuery == InitQuery /\ [][NextQuery]_vars

----------------------------------------------------------------------------
(* SpecNotion: NotionDelivery.deliver_daily_ideas called with batches of     *)
(* items against databases of several schemas.                               *)

\* items in one batch
MaxBatch == 3

\* str.upper, one character: "sz" is the sharp s (U+00DF), a lower-case letter
\* without an upper-case letter of its own, which str.upper writes as "SS" and
\* str.lower leaves as it is
Upper(c) ==
    IF \E k \in DOMAIN LowerLetters : LowerLetters[k] = c
    THEN <<UpperLetters[CHOOSE k \in DOMAIN LowerLetters : LowerLetters[k] = c]>>
    ELSE IF c = "sz" THEN <<"S", "S">>
    ELSE <<c>>

\* str.upper, and a name with surrounding blanks
RECURSIVE str_upper(_)
str_upper(str) ==
    IF str = << >> THEN << >> ELSE Upper(Head(str)) \o str_upper(Tail(str))
Padded(str) == <<" ">> \o str \o <<" ">>

W_Notes == <<"N", "o", "t", "e", "s">>

\* the schemas of the databases: none cached, the default database, one with
\* every property the mapper knows and "Approved", one with other spellings,
\* one with other property types, one with two spellings of the same name
Schemas ==
    { << >>,
      <<Property(W_Title, "title")>>,
      <<Property(W_Name, "title"), Property(W_Source, "select"),
        Property(W_Link, "url"), Property(W_Score, "number"),
        Property(W_Status, "status"), Property(W_Category, "select"),
        Property(W_DateAdded, "date"), Property(W_Approved, "checkbox")>>,
      <<Property(Padded(str_lower(W_Name)), "title"),
        Property(str_upper(W_Source), "select"),
        Property(Padded(W_Score), "number"),
        Property(str_lower(W_Status), "select"),
        Property(str_upper(W_Category), "multi_select"),
        Property(str_upper(W_Approved), "checkbox"),
        Property(W_Notes, "rich_text")>>,
      <<Property(W_Title, "title"), Property(W_Status, "rich_text"),
        Property(W_Category, "rich_text"), Property(W_Link, "url"),
        Property(str_lower(W_Approved), "checkbox")>>,
      <<Property(str_upper(W_Title), "title"), Property(Padded(W_Score), "number"),
        Property(W_Score, "number"), Property(Padded(W_Approved), "checkbox")>> }

\* the items: a regular idea, an item without source and link whose score is
\* no number, and a digest with raw blocks and a score above 10
SinkItems ==
    { NewsItem("id1", "t1", "Research", "url", Number(8), "ai_research", FALSE),
      NewsItem("id2", "t2", "null", "null", NotANumber, "ai_news", FALSE),
      NewsItem("id3", "t3", "Multi-Platform", "url", Number(55), "daily_questions", TRUE) }

Batches == UNION {[1..n -> SinkItems] : n \in 0..MaxBatch}

\* what a page request can come to: a page, or an error status
PageOutcomes == {"ok", "http_4xx"}

Answers == {Answer(TRUE, sch) : sch \in Schemas} \cup {Answer(FALSE, << >>)}

InitNotion ==
    /\ now = T0
    /\ notion = NewNotion
    /\ discord = NewDiscord
    /\ IdleBudget
    /\ IdleUsage
    /\ history_file \in {NoHistoryFile, FilesLeft(1, 1).history_file}
    /\ history = load_history(history_file).data
    /\ IdleNews
    /\ IdleBrief
    /\ IdleClient
    /\ IdleProcs
    /\ last = NoOp

FrameNotion ==
    UNCHANGED <<now, budgetVars, usageVars, briefVars, newsVars, client, discord, procs>>

\* deliver_daily_ideas(items) is called, once in a process as run() does
NCall ==
    /\ notion.phase = "idle"
    /\ notion.calls = 0
    /\ \E items \in Batches : notion' = call_deliver(notion, items)
    /\ last' = Op("deliver_daily_ideas", now, <<history, history_file>>, 0, FALSE)
    /\ UNCHANGED historyVars

\* test_connection: GET databases/{id}
NTestConnection ==
    /\ notion.phase = "test_connection"
    /\ \E answer \in Answers : notion' = test_connection(notion, answer)
    /\ UNCHANGED <<historyVars, last>>

\* the next item of the batch: add_news_item
NAddNewsItem ==
    /\ notion.phase = "loop"
    /\ \E http \in PageOutcomes : notion' = deliver_item(notion, http)
    /\ UNCHANGED <<historyVars, last>>

\* the call returned to daily_briefing.run, "6. Update History": the raw items
\* are the delivered items' titles
NUpdateHistory ==
    /\ notion.phase = "returned"
    /\ notion' = [notion EXCEPT !.phase = "idle"]
    /\ IF notion.ret > 0
       THEN LET ideas == [k \in 1..Len(notion.items) |->
                             Item(notion.items[k].title, "News")]
                r == add_ideas(history, history_file, ideas)
            IN history' = r.data /\ history_file' = r.file
       ELSE UNCHANGED historyVars
    /\ UNCHANGED last

NextNotion ==
    \/ NCall /\ FrameNotion
    \/ NTestConnection /\ FrameNotion
    \/ NAddNewsItem /\ FrameNotion
    \/ NUpdateHistory /\ FrameNotion

SpecNotion == InitNotion /\ [][NextNotion]_vars

----------------------------------------------------------------------------
(* SpecDiscord: DiscordDelivery.deliver_daily_ideas called with batches of    *)
(* 0 to MaxItems items; the k-th item of a batch is k.                        *)

\* "Discord limit: 10 embeds": the items embeds are made of, and the chunk size
EMBED_LIMIT == 10
CHUNK_SIZE == 10

\* the largest batch, and the calls made in one behaviour
MaxItems == 11
MaxDiscordCalls == 2

\* one POST to the webhook: the embeds it carries (none for the header) and
\* whether _send_message returned True
Post(content, embeds, ok) == [content |-> content, embeds |-> embeds, ok |-> ok]

\* the embeds built of a batch of n items: the items by number
embeds_of(n) == [idx \in 1..Min(n, EMBED_LIMIT) |-> idx]

\* embeds[i:i+10]
chunk(embeds, i) == SubSeq(embeds, i + 1, Min(i + CHUNK_SIZE, Len(embeds)))

\* deliver_daily_ideas up to the header message, whose result is ignored
send_header(d, n, ok) ==
    [d EXCEPT !.calls = @ + 1, !.n = n, !.embeds = embeds_of(n),
              !.posts = <<Post("header", << >>, ok)>>, !.i = 0, !.ret = FALSE,
              !.phase = "sending"]

\* one turn of the loop over the chunks: a failed POST returns False
send_chunk(d, ok) ==
    LET d1 == [d EXCEPT !.posts = Append(@, Post("", chunk(d.embeds, d.i), ok))]
    IN IF ok THEN [d1 EXCEPT !.i = @ + CHUNK_SIZE]
       ELSE [d1 EXCEPT !.phase = "idle", !.ret = FALSE]

InitDiscord ==
    /\ now = T0
    /\ IdleBudget
    /\ IdleUsage
    /\ IdleHistory
    /\ IdleBrief
    /\ IdleClient
    /\ IdleSinks
    /\ IdleProcs
    /\ IdleNews
    /\ last = NoOp

DCall ==
    /\ discord.phase = "idle"
    /\ discord.calls < MaxDiscordCalls
    /\ \E n \in 0..MaxItems, ok \in BOOLEAN : discord' = send_header(discord, n, ok)

DSendChunk ==
    /\ discord.phase = "sending"
    /\ discord.i < Len(discord.embeds)
    /\ \E ok \in BOOLEAN : discord' = send_chunk(discord, ok)

\* the loop is over: "Delivered ... items to Discord", return True
DReturn ==
    /\ discord.phase = "sending"
    /\ discord.i >= Len(discord.embeds)
    /\ discord' = [discord EXCEPT !.phase = "idle", !.ret = TRUE]

FrameDiscord ==
    UNCHANGED <<now, budgetVars, usageVars, historyVars, briefVars, newsVars, client,
                notion, procs, last>>

NextDiscord ==
    \/ DCall /\ FrameDiscord
    \/ DSendChunk /\ FrameDiscord
    \/ DReturn /\ FrameDiscord

SpecDiscord == InitDiscord /\ [][NextDiscord]_vars

----------------------------------------------------------------------------
(* SpecOverlap: two processes over the same usage and budget files.  Each     *)
(* constructs its RateLimiter and BudgetManager (the files are read once),    *)
(* records runs and spendings on its own copies and saves whole documents.    *)

\* record operations of each kind the processes complete in one behaviour
MaxShared == 3

Instances == {1, 2}

\* a process that is not running, and one just constructed
NoInstance == [pc |-> "off", usage |-> UsageBlank("object"), budget |-> BudgetBlank("object")]
Instance(u, b) == [pc |-> "on", usage |-> u, budget |-> b]

\* inst: the processes; overlapped: two were alive at once; scripts, spend: the
\* number of completed record_script_generation calls and the sum of the amounts
\* of the completed record_spending calls
NoProcs ==
    [inst |-> [p \in Instances |-> NoInstance], overlapped |-> FALSE,
     scripts |-> 0, spends |-> 0, spend |-> 0]

InitOverlap ==
    /\ now = T0
    /\ IdleBudget
    /\ IdleUsage
    /\ IdleHistory
    /\ IdleBrief
    /\ IdleClient
    /\ IdleSinks
    /\ IdleNews
    /\ procs = NoProcs
    /\ last = NoOp

\* RateLimiter() and BudgetManager() in a new process
OConstruct ==
    \E p \in Instances :
        /\ procs.inst[p].pc = "off"
        /\ procs' = [procs EXCEPT
                        !.inst[p] = Instance(load_usage(usage_file, now).data,
                                             load_budget(budget_file, now).data),
                        !.overlapped = @ \/ \E q \in Instances : procs.inst[q].pc = "on"]
        /\ UNCHANGED <<usage_file, budget_file>>

\* rate_limiter.record_script_generation() in one process
ORecordScript ==
    \E p \in Instances :
        /\ procs.inst[p].pc = "on"
        /\ procs.scripts < MaxShared
        /\ LET r == record_script_generation(procs.inst[p].usage, usage_file, now)
           IN /\ usage_file' = r.file
              /\ procs' = [procs EXCEPT !.inst[p].usage = r.data, !.scripts = @ + 1]
        /\ UNCHANGED budget_file

\* budget.record_spending(amount) in one process
ORecordSpending ==
    \E p \in Instances, amount \in Amounts :
        /\ procs.inst[p].pc = "on"
        /\ procs.spends < MaxShared
        /\ LET r == record_spending(procs.inst[p].budget, budget_file, amount, now)
           IN /\ budget_file' = r.file
              /\ procs' = [procs EXCEPT !.inst[p].budget = r.data, !.spends = @ + 1,
                                        !.spend = @ + amount]
        /\ UNCHANGED usage_file

\* the process exits
OExit ==
    \E p \in Instances :
        /\ procs.inst[p].pc = "on"
        /\ procs' = [procs EXCEPT !.inst[p] = NoInstance]
        /\ UNCHANGED <<usage_file, budget_file>>

FrameOverlap ==
    UNCHANGED <<now, budget, usage, historyVars, briefVars, newsVars, client, sinkVars, last>>

NextOverlap ==
    \/ OConstruct /\ FrameOverlap
    \/ ORecordScript /\ FrameOverlap
    \/ ORecordSpending /\ FrameOverlap
    \/ OExit /\ FrameOverlap

SpecOverlap == InitOverlap /\ [][NextOverlap]_vars

----------------------------------------------------------------------------
(* SpecCalls: the functions that keep no state, each called with one input    *)
(* after another; last holds the call being made, its input and its result.   *)

\* the largest internal score handed to the property mapper
MaxScore == 100

\* a database whose Score property is a number, alone or beside the title
ScoreSchemas ==
    { <<Property(W_Title, "title"), Property(W_Score, "number")>>,
      <<Property(W_Name, "title"), Property(Padded(str_lower(W_Score)), "number")>>,
      <<Property(W_Title, "title")>> }

\* the length of ai_keywords
AI_KEYWORDS == 17

\* an age in hours beyond which nothing changes any more
FarHours == 1000000

\* item.published: None, or a datetime that many whole hours before now
\* (negative: in the future)
NoDate == [given |-> FALSE, hours_old |-> 0]
HoursOld(h) == [given |-> TRUE, hours_old |-> h]

\* what _score_item reads of a title: the keywords found in it and the
\* engagement signals ("?", a digit, new / launch, free, vs / better)
TitleFeatures(keyword_matches, question, digit, fresh, free, versus) ==
    [keyword_matches |-> keyword_matches, question |-> question, digit |-> digit,
     fresh |-> fresh, free |-> free, versus |-> versus]

\* the empty title, and a title with every keyword and every signal
EmptyTitle == TitleFeatures(0, FALSE, FALSE, FALSE, FALSE, FALSE)
FullTitle == TitleFeatures(AI_KEYWORDS, TRUE, TRUE, TRUE, TRUE, TRUE)

Max(a, b) == IF a >= b THEN a ELSE b

Points(signal, points) == IF signal THEN points ELSE 0

\* the three components of the score, summed
score_sum(published, f) ==
    (IF published.given THEN Max(0, 40 - published.hours_old * 2) ELSE 20)
        + Min(30, f.keyword_matches * 10)
        + Points(f.question, 10) + Points(f.digit, 5) + Points(f.fresh, 10)
        + Points(f.free, 5) + Points(f.versus, 5)

\* _score_item without the cap
score_item_NoCap(published, f) == [raised |-> FALSE, score |-> score_sum(published, f)]

\* NewsAggregator._score_item
score_item(published, f) == [raised |-> FALSE, score |-> Min(100, score_sum(published, f))]

PublishedDates ==
    {NoDate} \cup {HoursOld(h) : h \in {-FarHours, -1, 0, 1, 19, 20, 21, FarHours}}

Titles ==
    {TitleFeatures(k, q, d, n, f, v) :
        k \in {0, 1, 2, 3, 4, AI_KEYWORDS}, q \in BOOLEAN, d \in BOOLEAN, n \in BOOLEAN,
        f \in BOOLEAN, v \in BOOLEAN}

\* the per-block ceiling of _build_page_content
BLOCK_CEILING == 1900

\* lines in one summary; the length of a short text and of one over the ceiling
MaxLines == 3
ShortLen == 20
LongLen == 2000

\* One line of a summary.  kind "blank": empty after strip.  kind "marker": the
\* line carries the label marker ("freshness", "why", "how", "description");
\* form "plain" when the line starts with the literal _build_page_content looks
\* for, "bold" when it is written as daily_briefing writes it ("**<label>:** ...").
\* kind "text": any other line.  len is the length of what the line gives to the
\* buffer: the whole stripped line, or for a plain marker line the text after
\* the label.
Line(kind, marker, form, len) == [kind |-> kind, marker |-> marker, form |-> form, len |-> len]
BlankLine == Line("blank", "none", "plain", 0)
TextLine(len) == Line("text", "none", "plain", len)
MarkerLine(marker, form, len) == Line("marker", marker, form, len)

Markers == {"freshness", "why", "how", "description"}

\* "<label>" in summary_text
Contains(summary, marker) ==
    \E i \in DOMAIN summary : summary[i].kind = "marker" /\ summary[i].marker = marker

\* line.startswith("<label>")
StartsWith(line, marker) ==
    line.kind = "marker" /\ line.marker = marker /\ line.form = "plain"

\* len(summary_text): the lines and the newlines between them
RECURSIVE text_len(_)
text_len(summary) ==
    IF summary = << >> THEN 0
    ELSE IF Len(summary) = 1 THEN summary[1].len
    ELSE summary[1].len + 1 + text_len(Tail(summary))

\* a block: its type, for a heading the section it opens, the lines of the
\* summary its text is made of, in order, the characters [from, to) of the
\* research text it carries, and the length of its text content
Block(type, section, lines, from, to, len) ==
    [type |-> type, section |-> section, lines |-> lines, from |-> from, to |-> to,
     len |-> len]

\* the buffer of lines: " ".join(buffer) has length len
NoBuffer == [lines |-> << >>, len |-> 0]
buffer_append(buffer, i, len) ==
    [lines |-> Append(buffer.lines, i),
     len |-> IF buffer.lines = << >> THEN len ELSE buffer.len + 1 + len]

\* _flush_buffer writing a paragraph whatever the section
flush_buffer_AlwaysParagraph(children, buffer, section_type) ==
    IF buffer.lines = << >> THEN children
    ELSE Append(children, Block("paragraph", "none", buffer.lines, 0, 0, buffer.len))

\* NotionDelivery._flush_buffer: "Freshness: " is put before the callout's text
flush_buffer(children, buffer, section_type) ==
    IF buffer.lines = << >> THEN children
    ELSE IF section_type = "callout_freshness"
    THEN Append(children, Block("callout", "freshness", buffer.lines, 0, 0, buffer.len + 11))
    ELSE Append(children, Block("paragraph", "none", buffer.lines, 0, 0, buffer.len))

\* the item as _build_page_content reads it: the summary, the link ("null" for
\* None) and content_blocks (<<"none">> for None, else the list of blocks)
PageItem(summary, link, content_blocks) ==
    [summary |-> summary, link |-> link, content_blocks |-> content_blocks]
NoBlocks == <<"none">>

\* research: None, or a text of that many characters
NoResearch == [given |-> FALSE, len |-> 0]
Research(len) == [given |-> TRUE, len |-> len]

\* where _build_page_content stands: the line it is at, the blocks so far, the
\* buffer and the current section
Building(phase, i, children, buffer, current_section) ==
    [phase |-> phase, i |-> i, children |-> children, buffer |-> buffer,
     current_section |-> current_section]

\* the override returning the list only when the summary gives nothing
page_start_SummaryFirst(item) ==
    IF item.content_blocks # NoBlocks /\ item.summary = << >>
    THEN Building("returned", 0, item.content_blocks, NoBuffer, "intro")
    ELSE IF Contains(item.summary, "why") /\ Contains(item.summary, "freshness")
    THEN Building("lines", 1, << >>, NoBuffer, "intro")
    ELSE Building("tail", 0, <<Block("quote", "none", [i \in DOMAIN item.summary |-> i],
                                     0, 0, Min(text_len(item.summary), BLOCK_CEILING))>>,
                  NoBuffer, "intro")

\* _build_page_content up to the loop over the lines: the override, the
\* structured path, or the fallback quote of summary_text[:1900] ("No summary
\* provided." for an empty summary: a quote of no line)
page_start(item) ==
    IF item.content_blocks # NoBlocks /\ item.content_blocks # << >>
    THEN Building("returned", 0, item.content_blocks, NoBuffer, "intro")
    ELSE IF Contains(item.summary, "why") /\ Contains(item.summary, "freshness")
    THEN Building("lines", 1, << >>, NoBuffer, "intro")
    ELSE Building("tail", 0, <<Block("quote", "none", [i \in DOMAIN item.summary |-> i],
                                     0, 0, Min(text_len(item.summary), BLOCK_CEILING))>>,
                  NoBuffer, "intro")

\* a marker line: the buffer is flushed, a heading is added for every section
\* but freshness, and the text after the label starts the new buffer
page_marker(b, i, line) ==
    LET flushed == flush_buffer(b.children, b.buffer, b.current_section)
    IN IF line.marker = "freshness"
       THEN Building("lines", i + 1, flushed, buffer_append(NoBuffer, i, line.len),
                     "callout_freshness")
       ELSE Building("lines", i + 1,
                     Append(flushed, Block("heading_3", line.marker, << >>, 0, 0, ShortLen)),
                     buffer_append(NoBuffer, i, line.len), "paragraph")

\* one turn of the loop over the lines
page_line(b, line) ==
    IF line.kind = "blank"
    THEN Building("lines", b.i + 1, flush_buffer(b.children, b.buffer, b.current_section),
                  NoBuffer, b.current_section)
    ELSE IF \E m \in Markers : StartsWith(line, m)
    THEN page_marker(b, b.i, line)
    ELSE Building("lines", b.i + 1, b.children, buffer_append(b.buffer, b.i, line.len),
                  b.current_section)

\* research[i:i+1900] for i in range(0, len(research), 1900)
research_chunks(len) ==
    [k \in 1..((len + BLOCK_CEILING - 1) \div BLOCK_CEILING) |->
        Block("paragraph", "research", << >>, (k - 1) * BLOCK_CEILING,
              Min(k * BLOCK_CEILING, len),
              Min(k * BLOCK_CEILING, len) - (k - 1) * BLOCK_CEILING)]

\* after the loop: "Flush remaining", the link callout, the research notes
page_tail(b, item, research) ==
    LET flushed == flush_buffer(b.children, b.buffer, b.current_section)
        linked == IF item.link # "null"
                  THEN Append(flushed, Block("callout", "link", << >>, 0, 0, ShortLen))
                  ELSE flushed
        noted == IF research.given /\ research.len > 0
                 THEN linked \o <<Block("divider", "none", << >>, 0, 0, 0),
                                  Block("heading_2", "research", << >>, 0, 0, ShortLen)>>
                             \o research_chunks(research.len)
                 ELSE linked
    IN Building("returned", b.i, noted, NoBuffer, b.current_section)

\* the lines tried: blank, short and long text, each label as the code looks
\* for it and as daily_briefing writes it, a long description
LineKinds ==
    {BlankLine, TextLine(ShortLen), TextLine(LongLen),
     MarkerLine("description", "plain", LongLen)}
        \cup {MarkerLine(m, f, ShortLen) : m \in Markers, f \in {"plain", "bold"}}

\* summary_text as daily_briefing composes it
BriefingSummary(len) ==
    <<MarkerLine("freshness", "bold", len), MarkerLine("why", "bold", len), BlankLine,
      MarkerLine("how", "bold", len), BlankLine, MarkerLine("description", "bold", len)>>

\* the same four sections with the labels at the start of their lines
PlainSummary(len) ==
    <<MarkerLine("freshness", "plain", len), MarkerLine("why", "plain", len), BlankLine,
      MarkerLine("how", "plain", len), BlankLine, MarkerLine("description", "plain", len)>>

Summaries ==
    UNION {[1..n -> LineKinds] : n \in 0..MaxLines}
        \cup {BriefingSummary(ShortLen), PlainSummary(ShortLen), PlainSummary(LongLen)}

\* pre-built block lists: none, an empty one, one of two blocks
PrebuiltBlocks ==
    {NoBlocks, << >>,
     <<Block("heading_2", "prebuilt", << >>, 0, 0, ShortLen),
       Block("paragraph", "prebuilt", << >>, 0, 0, LongLen)>>}

ResearchTexts ==
    {NoResearch, Research(0), Research(ShortLen), Research(BLOCK_CEILING),
     Research(BLOCK_CEILING + 1), Research(2 * BLOCK_CEILING + ShortLen)}

\* the calls tried: every summary with and without link, and a few summaries
\* with every block list and every research text
PageCalls ==
    {<<PageItem(sm, link, NoBlocks), NoResearch>> : sm \in Summaries, link \in {"null", "url"}}
        \cup {<<PageItem(sm, "url", cb), r>> :
                sm \in {<< >>, <<TextLine(LongLen)>>, BriefingSummary(ShortLen),
                        PlainSummary(ShortLen)},
                cb \in PrebuiltBlocks, r \in ResearchTexts}

\* tokens in one response text
MaxTokens == 4

\* A response text is a sequence of tokens: the brackets and the comma of JSON,
\* "obj" for one well-formed JSON object, "prose" for words that are no JSON,
\* "fence" for a code fence (with or without the word json and the line break)
Tokens == {"[", "]", ",", "obj", "prose", "fence"}

JsonDict == [kind |-> "dict", items |-> << >>]
JsonList(items) == [kind |-> "list", items |-> items]
Parsed(ok, next, val) == [ok |-> ok, next |-> next, val |-> val]
NotParsed == Parsed(FALSE, 0, JsonDict)

\* json.loads: one value, an object or an array of values separated by commas
RECURSIVE parse_value(_, _), parse_elements(_, _, _)
parse_value(text, i) ==
    IF i > Len(text) THEN NotParsed
    ELSE IF text[i] = "obj" THEN Parsed(TRUE, i + 1, JsonDict)
    ELSE IF text[i] = "["
    THEN IF i + 1 <= Len(text) /\ text[i + 1] = "]"
         THEN Parsed(TRUE, i + 2, JsonList(<< >>))
         ELSE parse_elements(text, i + 1, << >>)
    ELSE NotParsed

parse_elements(text, i, items) ==
    LET v == parse_value(text, i)
    IN IF ~v.ok \/ v.next > Len(text) THEN NotParsed
       ELSE IF text[v.next] = ","
       THEN parse_elements(text, v.next + 1, Append(items, v.val))
       ELSE IF text[v.next] = "]"
       THEN Parsed(TRUE, v.next + 1, JsonList(Append(items, v.val)))
       ELSE NotParsed

\* json.loads of a whole text: JSONDecodeError unless the text is one value
json_loads(text) ==
    LET v == parse_value(text, 1)
    IN IF v.ok /\ v.next = Len(text) + 1 THEN v ELSE NotParsed

\* content.find and content.rfind of the brackets, 0 for -1
find_open(text) ==
    IF \E i \in DOMAIN text : text[i] = "["
    THEN CHOOSE i \in DOMAIN text : text[i] = "[" /\ \A j \in 1..i - 1 : text[j] # "["
    ELSE 0
rfind_close(text) ==
    IF \E i \in DOMAIN text : text[i] = "]"
    THEN CHOOSE i \in DOMAIN text : text[i] = "]" /\ \A j \in i + 1..Len(text) : text[j] # "]"
    ELSE 0

\* the text from the first "[" to the last "]" behind it, << >> if there is none
bracketed(text) ==
    IF find_open(text) # 0 /\ rfind_close(text) > find_open(text)
    THEN SubSeq(text, find_open(text), rfind_close(text))
    ELSE << >>

\* re.sub of the code fences
without_fences(text) == SelectSeq(text, LAMBDA tok : tok # "fence")

\* re.sub(r',\s*]', ']', ...): a comma right before a closing bracket goes
without_trailing_commas(text) ==
    LET keep == {i \in DOMAIN text : ~(text[i] = "," /\ i < Len(text) /\ text[i + 1] = "]")}
        pos(k) == CHOOSE i \in keep : Cardinality({j \in keep : j < i}) = k - 1
    IN [k \in 1..Cardinality(keep) |-> text[pos(k)]]

Extracted(val) == [raised |-> FALSE, val |-> val]

\* PerplexityDiscovery._parse_json_response: the bracketed part, else the whole
\* content, whatever json.loads makes of it, else []
parse_json_response(content) ==
    LET part == json_loads(bracketed(content))
        whole == json_loads(content)
    IN IF bracketed(content) # << >> /\ part.ok THEN Extracted(part.val)
       ELSE IF whole.ok THEN Extracted(whole.val)
       ELSE Extracted(JsonList(<< >>))

\* DeepTrendDiscovery._parse_json: fences removed, the bracketed part as it is,
\* then with trailing commas removed, else the whole content if it is a list
deep_parse_json(content) ==
    LET text == without_fences(content)
        part == json_loads(bracketed(text))
        fixed == json_loads(without_trailing_commas(bracketed(text)))
        whole == json_loads(text)
    IN IF bracketed(text) # << >> /\ part.ok THEN Extracted(part.val)
       ELSE IF bracketed(text) # << >> /\ fixed.ok THEN Extracted(fixed.val)
       ELSE IF whole.ok /\ whole.val.kind = "list" THEN Extracted(whole.val)
       ELSE Extracted(JsonList(<< >>))

\* UltimateAIDiscovery._parse_json: fences removed, the bracketed part with
\* trailing commas removed, else the whole content if it is a list
ultimate_parse_json(content) ==
    LET text == without_fences(content)
        fixed == json_loads(without_trailing_commas(bracketed(text)))
        whole == json_loads(text)
    IN IF bracketed(text) # << >> /\ fixed.ok THEN Extracted(fixed.val)
       ELSE IF whole.ok /\ whole.val.kind = "list" THEN Extracted(whole.val)
       ELSE Extracted(JsonList(<< >>))

\* the response texts tried: every text of up to MaxTokens tokens, bare and
\* between code fences
BareTexts == UNION {[1..n -> Tokens] : n \in 0..MaxTokens}
Fenced(text) == <<"fence">> \o text \o <<"fence">>
Contents == BareTexts \cup {Fenced(text) : text \in BareTexts}

\* characters in a short title
MaxTitleLen == 2

\* the titles _is_duplicate is asked about: short ones, and ones as long as the
\* prefix that is compared, with and without more behind it
TitleChars == {"a", "A", "1", "sz"}
ShortTitles == UNION {[1..n -> TitleChars] : n \in 0..MaxTitleLen}
LongTitle(c, rest) == [i \in 1..TITLE_PREFIX - 1 |-> "a"] \o <<c>> \o rest
LongTitles == {LongTitle(c, rest) : c \in TitleChars, rest \in {<< >>, <<"x">>, <<"Y">>}}
DupTitles == ShortTitles \cup LongTitles

\* the histories it is asked with: empty, or one title saved by _save_history
SeenHistories ==
    {empty_news} \cup
    {news_save_history(empty_news, NoNewsFile, <<title>>, NoTime).data : title \in DupTitles}

InitCalls ==
    /\ now = T0
    /\ IdleBudget
    /\ IdleUsage
    /\ IdleHistory
    /\ IdleBrief
    /\ IdleClient
    /\ IdleSinks
    /\ IdleProcs
    /\ IdleNews
    /\ last = NoOp

\* _build_simple_properties(item) for an item of internal score v
FBuildProperties ==
    /\ last.op = "none"
    /\ \E v \in 0..MaxScore, db_properties \in ScoreSchemas :
          LET item == NewsItem("id", "t", "Research", "url", Number(v), "ai_news", FALSE)
          IN last' = Op("_build_simple_properties", NoTime, db_properties, v,
                        build_simple_properties(item, db_properties))

\* _score_item(item)
FScoreItem ==
    /\ last.op = "none"
    /\ \E published \in PublishedDates, f \in Titles :
          last' = Op("_score_item", NoTime, f, published, score_item(published, f))

\* _is_duplicate(title) with some history loaded
FIsDuplicate ==
    /\ last.op = "none"
    /\ \E h \in SeenHistories, title \in DupTitles :
          last' = Op("_is_duplicate", NoTime, h, title, is_duplicate(h, title))

\* the three extractors, each given the content of a response
FParseJsonResponse ==
    /\ last.op = "none"
    /\ \E content \in Contents :
          last' = Op("_parse_json_response", NoTime, content, 0, parse_json_response(content))

FDeepParseJson ==
    /\ last.op = "none"
    /\ \E content \in Contents :
          last' = Op("deep._parse_json", NoTime, content, 0, deep_parse_json(content))

FUltimateParseJson ==
    /\ last.op = "none"
    /\ \E content \in Contents :
          last' = Op("ultimate._parse_json", NoTime, content, 0, ultimate_parse_json(content))

\* _build_page_content(item, research) is entered
FBuildPage ==
    /\ last.op = "none"
    /\ \E c \in PageCalls :
          last' = Op("_build_page_content", NoTime, c[1], c[2], page_start(c[1]))

\* the next line of the summary
FLine ==
    /\ last.op = "_build_page_content"
    /\ last.ret.phase = "lines"
    /\ last.ret.i <= Len(last.pre.summary)
    /\ last' = [last EXCEPT !.ret = page_line(last.ret, last.pre.summary[last.ret.i])]

\* the loop is over
FTail ==
    /\ last.op = "_build_page_content"
    /\ \/ last.ret.phase = "tail"
       \/ last.ret.phase = "lines" /\ last.ret.i > Len(last.pre.summary)
    /\ last' = [last EXCEPT !.ret = page_tail(last.ret, last.pre, last.arg)]

\* the caller has taken the result
FReturn ==
    /\ last.op # "none"
    /\ last.op = "_build_page_content" => last.ret.phase = "returned"
    /\ last' = NoOp

FrameCalls ==
    UNCHANGED <<now, budgetVars, usageVars, historyVars, briefVars, newsVars, client,
                sinkVars, procs>>

NextCalls ==
    \/ FBuildProperties /\ FrameCalls
    \/ FScoreItem /\ FrameCalls
    \/ FIsDuplicate /\ FrameCalls
    \/ FParseJsonResponse /\ FrameCalls
    \/ FDeepParseJson /\ FrameCalls
    \/ FUltimateParseJson /\ FrameCalls
    \/ FBuildPage /\ FrameCalls
    \/ FLine /\ FrameCalls
    \/ FTail /\ FrameCalls
    \/ FReturn /\ FrameCalls

SpecCalls == InitCalls /\ [][NextCalls]_vars

----------------------------------------------------------------------------
(* SpecHour: one briefing process after the other, as many as MaxRuns, seen *)
(* on the rate limiter only.  The budget check is taken to pass (a run it   *)
(* stops sends no query, like a run that exits right after it started),     *)
(* what is found and delivered is left out, and every research query is     *)
(* counted in the hour it is sent in.                                       *)

\* briefing processes in one behaviour
MaxRuns == 6
\* the times the clock is seen to advance in one behaviour
MaxWaits == 1

\* the locals of the run and the count of the queries sent in the hour `hour`
HourRun(n, waits, passNo, hour, sent) ==
    [n |-> n, waits |-> waits, passNo |-> passNo, hour |-> hour, sent |-> sent]

InitHour ==
    /\ now = T0
    /\ IdleBudget
    /\ IdleUsage
    /\ IdleHistory
    /\ pc = "off"
    /\ run = HourRun(0, 0, 0, HourKey(T0), 0)
    /\ IdleClient
    /\ IdleSinks
    /\ IdleProcs
    /\ IdleNews
    /\ last = NoOp

\* DailyBriefing() and the head of run(): the rate limiter loads its file,
\* rate_limiter.get_status() runs _reset_if_needed
RunStart ==
    /\ pc = "off"
    /\ run.n < MaxRuns
    /\ LET u == load_usage(usage_file, now)
           s == reset_if_needed(u.data, usage_file, now)
       IN /\ usage' = s.data
          /\ usage_file' = s.file
    /\ run' = [run EXCEPT !.n = @ + 1, !.passNo = 0]
    /\ pc' = "daily_gate"
    /\ UNCHANGED <<now, last>>

\* 2. Rate Limit Check
RunDailyGate ==
    /\ pc = "daily_gate"
    /\ LET r == can_generate_script(usage, usage_file, DAILY_RUN_LIMIT, now)
       IN /\ usage' = r.data
          /\ usage_file' = r.file
          /\ pc' = IF r.ret THEN "record_run" ELSE "done"
    /\ UNCHANGED <<now, run, last>>

\* "Record this run attempt"
RunRecord ==
    /\ pc = "record_run"
    /\ LET r == record_script_generation(usage, usage_file, now)
       IN /\ usage' = r.data
          /\ usage_file' = r.file
    /\ pc' = "pass"
    /\ run' = [run EXCEPT !.passNo = 1]
    /\ UNCHANGED <<now, last>>

\* where the run goes on after pass number passNo
AfterPassNo(passNo) == IF passNo >= PASSES THEN "done" ELSE "pass"

\* _run_research_pass up to the rate limit gate
RunPassGate ==
    /\ pc = "pass"
    /\ LET r == can_fetch_news(usage, usage_file, HOURLY_FETCH_LIMIT, now)
       IN /\ usage' = r.data
          /\ usage_file' = r.file
          /\ IF r.ret
             THEN pc' = "query" /\ run' = run
             ELSE pc' = AfterPassNo(run.passNo) /\ run' = [run EXCEPT !.passNo = @ + 1]
    /\ UNCHANGED <<now, last>>

\* the queries sent in the hour of t, one more than before
Sent(r, t) ==
    IF r.hour = HourKey(t)
    THEN [r EXCEPT !.sent = @ + 1]
    ELSE [r EXCEPT !.hour = HourKey(t), !.sent = 1]

\* the query is sent and returns None: the pass returns [] and records nothing
RunQueryFails ==
    /\ pc = "query"
    /\ run' = [Sent(run, now) EXCEPT !.passNo = @ + 1]
    /\ pc' = AfterPassNo(run.passNo)
    /\ UNCHANGED <<now, usageVars, last>>

\* the query is sent and returns content: "Record success"
RunQueryOk ==
    /\ pc = "query"
    /\ LET u == record_news_fetch(usage, usage_file, now)
       IN /\ usage' = u.data
          /\ usage_file' = u.file
    /\ run' = [Sent(run, now) EXCEPT !.passNo = @ + 1]
    /\ pc' = AfterPassNo(run.passNo)
    /\ UNCHANGED <<now, last>>

\* run() returns, or the process is killed: it exits
RunExit ==
    /\ pc # "off"
    /\ pc' = "off"
    /\ usage' = UsageBlank("object")
    /\ UNCHANGED <<now, usage_file, run, last>>

\* time passes, between two processes or within one: the next hour, the next
\* day or the next month begins
RunWait ==
    /\ run.waits < MaxWaits
    /\ \E u \in Soon(now) : now' = u
    /\ run' = [run EXCEPT !.waits = @ + 1]
    /\ UNCHANGED <<usageVars, pc, last>>

FrameHour == UNCHANGED <<budgetVars, historyVars, newsVars, client, sinkVars, procs>>

NextHour ==
    \/ RunStart /\ FrameHour
    \/ RunDailyGate /\ FrameHour
    \/ RunRecord /\ FrameHour
    \/ RunPassGate /\ FrameHour
    \/ RunQueryFails /\ FrameHour
    \/ RunQueryOk /\ FrameHour
    \/ RunExit /\ FrameHour
    \/ RunWait /\ FrameHour

SpecHour == InitHour /\ [][NextHour]_vars

----------------------------------------------------------------------------
(* SpecCollect: collect_all called again and again, by one NewsAggregator or *)
(* by the one of a later process, over the files that earlier calls left,    *)
(* the last of them in this hour.  The k-th title the collectors ever come   *)
(* up with is title k; a call is offered new titles and, once more, a title  *)
(* that was offered before.                                                  *)

\* settings.max_news_fetches_per_hour, and the items collect_all keeps
NEWS_FETCH_LIMIT == 2
TOP_ITEMS == 8

\* collect_all calls in one behaviour
MaxCollects == 2
\* titles in the history file that earlier calls left
LeftTitles == NEWS_HISTORY_CAP - 4
\* new titles the collectors come up with in one call
MaxFresh == TOP_ITEMS + 1

\* an item of a collector: _score_item reads its date and its title
Collected(title, published, features) ==
    [title |-> title, published |-> published, features |-> features]

\* title number k as the collectors give it
CollectedNo(k, features) == Collected(NewsTitleNo(k), NoDate, features)

\* what was returned so far (the normalized titles, in the order they were
\* saved), the titles come up with, the calls made, the times the clock advanced
Collects(returned, titles, calls, waits) ==
    [returned |-> returned, titles |-> titles, calls |-> calls, waits |-> waits]

\* fresh_items.sort(key=lambda x: x.score, reverse=True): the sort is stable
sort_by_score(items) ==
    LET before(j, i) ==
            \/ items[j].score > items[i].score
            \/ items[j].score = items[i].score /\ j < i
        rank(i) == Cardinality({j \in DOMAIN items : before(j, i)}) + 1
    IN [k \in DOMAIN items |-> items[CHOOSE i \in DOMAIN items : rank(i) = k]]

Collection(usage_, usage_file_, news_, news_file_, ret) ==
    [usage |-> usage_, usage_file |-> usage_file_, news |-> news_,
     news_file |-> news_file_, ret |-> ret]

\* collect_all with nothing saved to the history
collect_all_NothingSaved(u, ufile, h, hfile, all_items, t) ==
    Collection(u, ufile, h, hfile, SubSeq(all_items, 1, Min(Len(all_items), TOP_ITEMS)))

\* the value of an expression, worked out once
The(values) == CHOOSE v \in values : TRUE

\* item.score = self._score_item(item), for every item
with_scores(fresh_items) ==
    [i \in DOMAIN fresh_items |->
        [title |-> fresh_items[i].title,
         score |-> score_item(fresh_items[i].published, fresh_items[i].features).score]]

\* the items of all_items that are not in the history, sorted by score, the
\* first TOP_ITEMS of them
top_items(h, all_items) ==
    The({SubSeq(sorted, 1, Min(Len(sorted), TOP_ITEMS)) :
            sorted \in {sort_by_score(scored) :
                scored \in {with_scores(fresh_items) :
                    fresh_items \in {SelectSeq(all_items,
                        LAMBDA item : ~is_duplicate(h, item.title).ret)}}}})

\* NewsAggregator.collect_all, given what the collectors return
collect_all(u, ufile, h, hfile, all_items, t) ==
    LET gate == can_fetch_news(u, ufile, NEWS_FETCH_LIMIT, t)
        rec == record_news_fetch(gate.data, gate.file, t)
    IN IF ~gate.ret
       THEN Collection(gate.data, gate.file, h, hfile, << >>)
       ELSE The({The({Collection(rec.data, rec.file, saved.data, saved.file, top) :
                         saved \in {news_save_history(h, hfile,
                                        [i \in DOMAIN top |-> top[i].title], t)}}) :
                    top \in {top_items(h, all_items)}})

\* the history file holding the titles 1..k
LeftHistory(k) == NewsValue("ok", [i \in 1..k |-> Normalized(NewsTitleNo(i))], T0)

InitCollect ==
    /\ now = T0
    /\ \E k \in {0, LeftTitles} :
          /\ news_file = IF k = 0 THEN NoNewsFile ELSE [kind |-> "json", doc |-> LeftHistory(k)]
          /\ added = Collects(LeftHistory(k).seen_titles, k, 0, 0)
          /\ usage_file = IF k = 0 THEN NoUsageFile
                          ELSE save_usage(FetchesRecorded(empty_usage(T0), 1))
    /\ news = load_news_history(news_file).data
    /\ usage = load_usage(usage_file, now).data
    /\ IdleBudget
    /\ IdleHistory
    /\ IdleBrief
    /\ IdleClient
    /\ IdleSinks
    /\ IdleProcs
    /\ last = NoOp

\* the titles offered once more: the oldest one and the last but one, which
\* the last call returned or left out as the scores were
OfferedAgain(n) == {k \in {1, n - 1} : k >= 1}

\* one collect_all call, by the NewsAggregator of the last call or by the one
\* of a new process, whose rate limiter and NewsAggregator load their files:
\* n new titles, the ones from number hot on with every keyword and signal,
\* and in front of them possibly a title offered before
KCollectAll ==
    /\ added.calls < MaxCollects
    /\ \E n \in {0, MaxFresh}, again \in {0} \cup OfferedAgain(added.titles) :
       \E hot \in {1, n}, new_process \in BOOLEAN :
          LET fresh == [i \in 1..n |->
                           CollectedNo(added.titles + i,
                                       IF i >= hot THEN FullTitle ELSE EmptyTitle)]
              all_items == IF again = 0 THEN fresh
                           ELSE <<CollectedNo(again, FullTitle)>> \o fresh
              u == IF new_process THEN load_usage(usage_file, now).data ELSE usage
              h == IF new_process THEN load_news_history(news_file).data ELSE news
          IN \E r \in {collect_all(u, usage_file, h, news_file, all_items, now)} :
             /\ n + again > 0
             /\ usage' = r.usage
             /\ usage_file' = r.usage_file
             /\ news' = r.news
             /\ news_file' = r.news_file
             /\ added' = [added EXCEPT
                              !.returned = @ \o [i \in DOMAIN r.ret |-> Normalized(r.ret[i].title)],
                              !.titles = @ + n,
                              !.calls = @ + 1]
             /\ last' = Op("collect_all", now,
                           [history |-> h.seen_titles, returned |-> added.returned],
                           all_items, r.ret)
    /\ UNCHANGED now

\* the next hour, the next day or the next month begins
KWait ==
    /\ added.waits < MaxWaits
    /\ \E u \in Soon(now) : now' = u
    /\ added' = [added EXCEPT !.waits = @ + 1]
    /\ UNCHANGED <<usageVars, news, news_file, last>>

FrameCollect == UNCHANGED <<budgetVars, historyVars, briefVars, client, sinkVars, procs>>

NextCollect ==
    \/ KCollectAll /\ FrameCollect
    \/ KWait /\ FrameCollect

SpecCollect == InitCollect /\ [][NextCollect]_vars

----------------------------------------------------------------------------
(* Claims about the quota ledger *)

\* C1: check_budget called while the stored month key differs from the current
\* month zeroes total_spend and the run counter, stores the current month key,
\* persists that state and returns true.
C1_CheckBudgetRollsOver ==
    (last.op = "check_budget" /\ last.pre.current_month # MonthKey(last.t))
        => /\ budget.total_spend = 0
           /\ budget.runs_this_month = 0
           /\ budget.current_month = MonthKey(last.t)
           /\ budget_file = [kind |-> "json", doc |-> budget]
           /\ last.ret = TRUE

C1_Witness ==
    /\ last.op = "check_budget"
    /\ last.pre.current_month # MonthKey(last.t)
    /\ last.pre.total_spend = MONTHLY_LIMIT - 1
    /\ last.ret = TRUE

\* C2: record_spending(amount) called while the stored month key differs from
\* the current month resets the counters before the increment: afterwards
\* total_spend = amount and the run counter is 1 under the current month key.
C2_RecordSpendingRollsOver ==
    (last.op = "record_spending" /\ last.pre.current_month # MonthKey(last.t))
        => /\ budget.total_spend = last.arg
           /\ budget.runs_this_month = 1
           /\ budget.current_month = MonthKey(last.t)

\* C3: each of the four rate-limiter operations resets the daily (hourly)
\* counter and updates the key when the stored day (hour) key differs from the
\* current one, before the limit is compared or the counter incremented; a
\* counter whose window did not change is carried over, so an hour change
\* within the same day leaves the daily counter unchanged.
C3_LimiterRollsOver ==
    LET pre == last.pre
        day0 == IF pre.scripts_date # DayKey(last.t) THEN 0 ELSE pre.scripts_today
        hour0 == IF pre.news_fetch_hour # HourKey(last.t) THEN 0
                 ELSE pre.news_fetches_this_hour
    IN (last.op \in {"can_generate_script", "record_script_generation",
                     "can_fetch_news", "record_news_fetch"})
        => /\ usage.scripts_date = DayKey(last.t)
           /\ usage.news_fetch_hour = HourKey(last.t)
           /\ usage.scripts_today =
                 day0 + (IF last.op = "record_script_generation" THEN 1 ELSE 0)
           /\ usage.news_fetches_this_hour =
                 hour0 + (IF last.op = "record_news_fetch" THEN 1 ELSE 0)
           /\ (last.op = "can_generate_script" => last.ret = (day0 < last.arg))
           /\ (last.op = "can_fetch_news" => last.ret = (hour0 < last.arg))

\* an hour change within the same day, with a daily counter to keep and an
\* hourly counter to reset
C3_Witness ==
    /\ last.op \in {"can_generate_script", "record_script_generation",
                    "can_fetch_news", "record_news_fetch"}
    /\ last.pre.scripts_date = DayKey(last.t)
    /\ last.pre.news_fetch_hour # HourKey(last.t)
    /\ last.pre.scripts_today > 0
    /\ last.pre.news_fetches_this_hour > 0
    /\ usage.scripts_today > 0

----------------------------------------------------------------------------
(* Claims about the daily briefing *)

\* C4: the budget manager prevents overruns: the recorded monthly total_spend
\* never exceeds MONTHLY_LIMIT.
C4_NoOverrun ==
    budget_file.kind = "json" => budget_file.doc.total_spend <= MONTHLY_LIMIT

\* C5: no raw item whose title is in the title history at the start of the run
\* is delivered to the sink.
C5_DeliveredNotInHistory ==
    (pc = "history" /\ run.success_count = Len(run.notion_items))
        => \A i \in 1..Len(run.all_raw_items) :
              \A j \in 1..Len(run.hist0) : run.all_raw_items[i].title # run.hist0[j]

\* C7: at the end of every state-changing operation of the ledger and the
\* history the persisted document equals the in-memory state; at every moment
\* of the process a file that exists holds what the instance has in memory, and
\* an instance whose file does not exist yet has recorded nothing, so a fresh
\* instance loading the files observes every completed update.
C7_PersistedEqualsMemory ==
    /\ (last.op = "record_spending" \/ (last.op = "check_budget" /\ last.arg = 1))
          => budget_file = [kind |-> "json", doc |-> budget]
    /\ last.op \in {"can_generate_script", "record_script_generation",
                    "can_fetch_news", "record_news_fetch"}
          => usage_file = [kind |-> "json", doc |-> usage]
    /\ last.op = "add_ideas" => history_file = [kind |-> "json", doc |-> history]
    /\ pc # "off" =>
          /\ budget_file.kind = "json" => load_budget(budget_file, now).data = budget
          /\ budget_file.kind = "absent" =>
                budget.total_spend = 0 /\ budget.runs_this_month = 0
          /\ load_usage(usage_file, now).data = usage
          /\ load_history(history_file).data = history

\* the first spend of the month has been recorded and is on disk
C7_Witness ==
    /\ last.op = "record_spending"
    /\ budget.runs_this_month = 1
    /\ budget.total_spend > 0
    /\ budget_file.kind = "json"

\* C10: a run that passed both gates attempts the three research passes in
\* order whatever the earlier passes came to; a pass whose query returned null
\* contributes no item, records no fetch and no spend, and the next pass follows.
C10_NullPassSkipped ==
    /\ pc \in {"pass", "query", "record_fetch", "record_cost"}
          => run.passNo \in 1..PASSES /\ Len(run.passLog) = run.passNo - 1
    /\ (pc \in {"transform", "deliver", "history"}
        \/ (pc = "done" /\ run.stopped \notin {"budget", "daily_limit"}))
          => Len(run.passLog) = PASSES
    /\ \A i \in 1..Len(run.passLog) :
          run.passLog[i].outcome = "null"
             => /\ run.passLog[i].nitems = 0
                /\ run.passLog[i].fetch1 = run.passLog[i].fetch0
                /\ run.passLog[i].spend1 = run.passLog[i].spend0
                /\ run.passLog[i].runs1 = run.passLog[i].runs0

\* the first query fails, the second succeeds, the third fails
C10_Witness ==
    /\ pc = "transform"
    /\ Len(run.passLog) = PASSES
    /\ run.passLog[1].outcome = "null"
    /\ run.passLog[2].outcome = "ok"
    /\ run.passLog[2].nitems > 0
    /\ run.passLog[3].outcome = "null"

----------------------------------------------------------------------------
(* Claims about the histories *)

\* the titles given so far, oldest first
GivenIdeas == [i \in 1..added.hist |-> ToString(i)]
GivenNews == [i \in 1..added.news |-> <<"n", ToString(i)>>]

\* C6: after every add_ideas call (cap 50) and every _save_history call (cap
\* 100), whatever the number of calls and the batch sizes, the stored list has
\* at most cap entries and is the most recently added titles in insertion
\* order: the oldest are evicted first.
C6_HistoryKeepsNewest ==
    /\ Len(history.titles) <= MAX_HISTORY
    /\ history.titles = LastN(GivenIdeas, MAX_HISTORY)
    /\ Len(news.seen_titles) <= NEWS_HISTORY_CAP
    /\ news.seen_titles = LastN(GivenNews, NEWS_HISTORY_CAP)

\* both histories have evicted titles
C6_Witness ==
    /\ added.hist > MAX_HISTORY + 1
    /\ Len(history.titles) = MAX_HISTORY
    /\ history.titles[1] = ToString(added.hist - MAX_HISTORY + 1)
    /\ added.news > NEWS_HISTORY_CAP + 1
    /\ Len(news.seen_titles) = NEWS_HISTORY_CAP
    /\ news.seen_titles[NEWS_HISTORY_CAP] = <<"n", ToString(added.news)>>

\* NewsAggregator._save_history writes what it keeps in memory
NewsHistoryPersisted ==
    last.op = "save_history" => news_file = [kind |-> "json", doc |-> news]

----------------------------------------------------------------------------
(* Claims about damaged files *)

\* C8: constructing the four components over files that are unreadable, not
\* parseable, or parseable but of another shape yields the empty default state,
\* and every later operation on the instances completes without raising.
C8_DamagedFileIsEmptyState ==
    /\ ~last.raised
    /\ last.op = "construct" =>
          /\ budget = empty_budget(now)
          /\ usage = empty_usage(now)
          /\ history = HistoryValue("ok", << >>)
          /\ news = empty_news

----------------------------------------------------------------------------
(* Claims about the research client *)

\* C9: when the HTTP request of a query fails with a timeout, a connection
\* error or a 5xx response, the client makes the request again: a query that
\* returns null after such a failure has made 2 requests.
C9_TransientFailureRetried ==
    \A name \in Clients :
        (/\ client[name].phase = "idle"
         /\ client[name].result = "null"
         /\ client[name].outcome \in Transient)
            => client[name].requests = STOP_AFTER_ATTEMPT

----------------------------------------------------------------------------
(* Claims about the Notion sink *)

\* the page requests of the last delivery call, in the order they were sent
PageRequests == SelectSeq(notion.requests, LAMBDA r : r.method = "POST")

\* C11: deliver_daily_ideas processes every item of the batch, in order, also
\* after page creation failed or raised for an earlier item, and returns the
\* number of items whose page was created, between 0 and the batch size.
C11_EveryItemProcessed ==
    (notion.phase = "returned" /\ notion.connected)
        => /\ notion.processed = [i \in 1..Len(notion.items) |-> i]
           /\ \A k \in 1..Len(PageRequests) - 1 :
                 PageRequests[k].item < PageRequests[k + 1].item
           /\ notion.ret =
                 Cardinality({k \in 1..Len(PageRequests) : PageRequests[k].answer = "ok"})
           /\ notion.ret \in 0..Len(notion.items)

\* building the first page raised, the second page was refused, the third was
\* created
C11_Witness ==
    /\ notion.phase = "returned"
    /\ notion.connected
    /\ Len(notion.items) = 3
    /\ build_simple_properties(notion.items[1], notion.db_properties).raised
    /\ Len(PageRequests) = 2
    /\ PageRequests[1].item = 2 /\ PageRequests[1].answer = "http_4xx"
    /\ PageRequests[2].item = 3 /\ PageRequests[2].answer = "ok"
    /\ notion.ret = 1

\* C12: within one deliver_daily_ideas call no page request is sent before the
\* connectivity and schema request of that call has succeeded; when that
\* request fails the call returns 0 without any page request, and the daily
\* briefing then leaves the title history as it was.
C12_ConnectionGate ==
    /\ PageRequests # << >>
          => /\ notion.requests[1].method = "GET"
             /\ notion.requests[1].answer = "ok"
    /\ (notion.calls > 0 /\ notion.phase \in {"returned", "idle"} /\ ~notion.connected)
          => /\ notion.ret = 0
             /\ PageRequests = << >>
             /\ <<history, history_file>> = last.pre

\* a batch of items was handed over, the connection failed, the briefing went on
C12_Witness ==
    /\ notion.calls > 0
    /\ notion.phase = "idle"
    /\ ~notion.connected
    /\ Len(notion.items) > 1
    /\ Len(notion.requests) = 1
    /\ notion.requests[1].answer = "failed"
    /\ history.titles # << >>

\* the names of the cached schema, and a name as _find_property compares it
SchemaNames == {notion.db_properties[k].name : k \in DOMAIN notion.db_properties}
Folded(name) == str_lower(str_strip(name))
KnownFields == {W_Source, W_Link, W_Score, W_Status, W_Category, W_DateAdded}
PageRequestSet == {PageRequests[k] : k \in DOMAIN PageRequests}

C20_ApprovedNeverSent ==
    \A r \in PageRequestSet :
        \A e \in r.properties : Folded(e.key) # Folded(W_Approved)

C20_Witness ==
    /\ notion.phase = "returned"
    /\ \E name \in SchemaNames : name # W_Approved /\ Folded(name) = Folded(W_Approved)
    /\ \E r \in PageRequestSet : Cardinality(r.properties) > 1

----------------------------------------------------------------------------
(* Claims about the run as a whole *)

\* C13: a run stopped by the budget check or by the daily run limit has issued
\* no research query and no delivery request and has changed nothing: the
\* monthly spend, the run counter, the daily and the hourly call counter and
\* the title history are what the run found, apart from the reset of a window
\* that has passed.
C13_GateStopsWithoutEffect ==
    (pc = "done" /\ run.stopped \in {"budget", "daily_limit"})
        => LET b0 == run.start.budget
               u0 == run.start.usage
               sameMonth == b0.current_month = MonthKey(now)
               sameDay == u0.scripts_date = DayKey(now)
               sameHour == u0.news_fetch_hour = HourKey(now)
           IN /\ run.passLog = << >> /\ run.result = << >> /\ run.all_raw_items = << >>
              /\ notion.calls = 0
              /\ budget.total_spend = IF sameMonth THEN b0.total_spend ELSE 0
              /\ budget.runs_this_month = IF sameMonth THEN b0.runs_this_month ELSE 0
              /\ budget_file.kind = "json" => budget_file.doc = budget
              /\ usage.scripts_today = IF sameDay THEN u0.scripts_today ELSE 0
              /\ usage.news_fetches_this_hour =
                    IF sameHour THEN u0.news_fetches_this_hour ELSE 0
              /\ usage_file = [kind |-> "json", doc |-> usage]
              /\ history.titles = run.hist0
              /\ history_file = run.start.history_file

\* the day's runs are used up and the run stops at the second gate
C13_Witness ==
    /\ pc = "done"
    /\ run.stopped = "daily_limit"
    /\ run.start.usage.scripts_today = DAILY_RUN_LIMIT
    /\ usage.scripts_today = DAILY_RUN_LIMIT

\* C14: a run never ends by an uncaught exception, whatever the research API
\* returns and whatever the destination answers
C14_RunEndsCleanly == run.stopped # "uncaught_exception"

\* C16: the ids of the items one run hands to the sink are pairwise distinct
C16_IdsPairwiseDistinct ==
    \A i, j \in DOMAIN notion.items :
        i # j => notion.items[i].id # notion.items[j].id

\* the end-to-end scenario: the history is empty, the gates let the run pass and
\* each of the three passes returns two items, one of them a question
TwoWithQuestion(items) ==
    /\ Len(items) = 2
    /\ \A i \in 1..2 : transform_raises(items[i]) = "none"
    /\ Cardinality({i \in 1..2 : IsQuestion(items[i])}) = 1

EndToEndScenario ==
    /\ pc \in {"history", "done"}
    /\ run.stopped \in {"no", "complete"}
    /\ run.hist0 = << >>
    /\ Len(run.all_raw_items) = 2 * PASSES
    /\ \A k \in 1..PASSES :
          /\ run.passLog[k].outcome = "ok"
          /\ TwoWithQuestion(SubSeq(run.all_raw_items, 2 * k - 1, 2 * k))

Digests(items) == SelectSeq(items, LAMBDA it : it.category = "daily_questions")

\* C17: in the end-to-end scenario the three questions go into one digest item,
\* one delivery call is made and carries 4 items (3 regular and the digest, which
\* comes last), and once a page was created the history holds the titles of all
\* 6 raw items in order
C17_EndToEnd ==
    EndToEndScenario =>
        /\ notion.calls = 1
        /\ notion.items = run.notion_items
        /\ Len(notion.items) = 4
        /\ Len(Digests(notion.items)) = 1
        /\ notion.items[4].category = "daily_questions"
        /\ notion.items[4].n = 3
        /\ (pc = "done" /\ run.success_count > 0) =>
              /\ history.titles = Titles_of(run.all_raw_items)
              /\ Len(history.titles) = 6
              /\ history_file.kind = "json"
              /\ history_file.doc = history

C17_Witness ==
    /\ EndToEndScenario
    /\ pc = "done"
    /\ run.success_count > 0
    /\ Len(notion.items) = 4

\* C17 as stated: the delivery call carries 5 items, 4 regular and the digest
C17_FiveItemsDelivered ==
    EndToEndScenario =>
        /\ notion.calls = 1
        /\ Len(notion.items) = 5
        /\ Len(Digests(notion.items)) = 1

----------------------------------------------------------------------------
(* Claims about processes sharing the state files *)

\* what a new process would read from the files
PersistedScripts == load_usage(usage_file, now).data.scripts_today
PersistedSpend == load_budget(budget_file, now).data.total_spend
PersistedSpendings == load_budget(budget_file, now).data.runs_this_month

\* C15: as long as the processes run one at a time, the files hold every
\* completed record: the run counter is the number of completed
\* record_script_generation calls, the spend the sum of the recorded amounts
C15_SequentialLosesNothing ==
    ~procs.overlapped =>
        /\ PersistedScripts = procs.scripts
        /\ PersistedSpend = procs.spend
        /\ PersistedSpendings = procs.spends

\* two overlapping processes have completed more records than the files hold
C15_Witness ==
    /\ procs.overlapped
    /\ PersistedScripts < procs.scripts
    /\ PersistedSpend < procs.spend

----------------------------------------------------------------------------
(* Claims about the Discord sink *)

EmbedPosts == SelectSeq(discord.posts, LAMBDA p : p.content = "")

Embedded == UNION {{p.embeds[k] : k \in DOMAIN p.embeds} : p \in {EmbedPosts[j] : j \in DOMAIN EmbedPosts}}

\* C18: a delivery of n items that returned True has sent every item as an
\* embed, in ceil(n / 10) POSTs of at most 10 embeds each
C18_EveryItemEmbedded ==
    (discord.calls > 0 /\ discord.phase = "idle" /\ discord.ret) =>
        /\ Embedded = 1..discord.n
        /\ Len(EmbedPosts) = (discord.n + CHUNK_SIZE - 1) \div CHUNK_SIZE
        /\ \A j \in DOMAIN EmbedPosts : Len(EmbedPosts[j].embeds) <= CHUNK_SIZE

----------------------------------------------------------------------------
(* Claims about the functions that keep no state *)

\* the number entries of a property map, in tenths
NumberEntries(properties) == {e \in properties : e.kind = "number"}

\* a score of 0..100 divided by 10 and clamped to 1..10, in tenths
Rescaled(v) == IF v < 10 THEN 10 ELSE IF v > 100 THEN 100 ELSE v

\* C21: with a Score field in the schema the emitted score is the internal
\* score divided by 10 and clamped to 1..10, for every internal score of 0..100
C21_ScoreRescaled ==
    (last.op = "_build_simple_properties" /\ find_property(last.pre, W_Score).found) =>
        /\ ~last.ret.raised
        /\ \E e \in NumberEntries(last.ret.properties) : e.value = Rescaled(last.arg)
        /\ \A e \in NumberEntries(last.ret.properties) : e.value = Rescaled(last.arg)

\* C22: _score_item never fails and returns a score of 0 to 100, whatever the
\* publish date (none, far in the past, in the future) and the title
C22_ScoreInRange ==
    last.op = "_score_item" =>
        /\ ~last.ret.raised
        /\ last.ret.score >= 0
        /\ last.ret.score <= 100

\* an item without date and title
C22_Witness ==
    /\ last.op = "_score_item"
    /\ last.arg = NoDate
    /\ last.pre = EmptyTitle
    /\ last.ret.score = 20

\* _build_page_content has returned
PageBuilt == last.op = "_build_page_content" /\ last.ret.phase = "returned"

\* the positions of the blocks of one type and section
BlocksAt(children, type, section) ==
    {k \in DOMAIN children : children[k].type = type /\ children[k].section = section}

\* the lines of a summary that are not blank
Written(summary) == {i \in DOMAIN summary : summary[i].kind # "blank"}

\* the summary holds a freshness line and a "why it matters" line, each
\* starting with its label and followed by text, and nothing else
OnlyFreshnessAndWhy(summary) ==
    \E f, w \in DOMAIN summary :
        /\ Written(summary) = {f, w}
        /\ StartsWith(summary[f], "freshness") /\ summary[f].len > 0
        /\ StartsWith(summary[w], "why") /\ summary[w].len > 0

LineOf(summary, marker) == CHOOSE i \in DOMAIN summary : StartsWith(summary[i], marker)

\* C23: a summary of a freshness line and a "why it matters" line gives one
\* freshness callout and one heading directly followed by one paragraph, and
\* nothing else of the summary; the callout carries the freshness text, the
\* paragraph the other, in the order of their lines
C23_FreshnessAndWhyBlocks ==
    (PageBuilt /\ last.pre.content_blocks = NoBlocks
        /\ OnlyFreshnessAndWhy(last.pre.summary)) =>
        LET ch == last.ret.children
            f == LineOf(last.pre.summary, "freshness")
            w == LineOf(last.pre.summary, "why")
        IN /\ Cardinality(BlocksAt(ch, "callout", "freshness")) = 1
           /\ Cardinality(BlocksAt(ch, "heading_3", "why")) = 1
           /\ Cardinality(BlocksAt(ch, "paragraph", "none")) = 1
           /\ \A k \in DOMAIN ch :
                 ch[k].type \in {"quote", "heading_3"} => ch[k].section = "why"
           /\ \A c \in BlocksAt(ch, "callout", "freshness"),
                 h \in BlocksAt(ch, "heading_3", "why"),
                 p \in BlocksAt(ch, "paragraph", "none") :
                   /\ p = h + 1
                   /\ ch[c].lines = <<f>>
                   /\ ch[p].lines = <<w>>
                   /\ (c < h) <=> (f < w)

\* the "why it matters" line comes first, a blank line lies between the two
C23_Witness ==
    /\ PageBuilt
    /\ last.pre.content_blocks = NoBlocks
    /\ OnlyFreshnessAndWhy(last.pre.summary)
    /\ Len(last.pre.summary) = 3
    /\ LineOf(last.pre.summary, "why") = 1
    /\ LineOf(last.pre.summary, "freshness") = 3
    /\ Len(last.ret.children) >= 3

\* the blocks built of the summary and the research text, not handed in
Rendered == PageBuilt /\ last.pre.content_blocks \in {NoBlocks, << >>}

ResearchBlocks(children) ==
    SelectSeq(children, LAMBDA b : b.type = "paragraph" /\ b.section = "research")

\* C24: no block built carries more text than the ceiling, and the research
\* text is cut into consecutive pieces that leave nothing out
C24_NoBlockOverCeiling ==
    Rendered =>
        /\ \A k \in DOMAIN last.ret.children : last.ret.children[k].len <= BLOCK_CEILING
        /\ LET rb == ResearchBlocks(last.ret.children)
           IN last.arg.given /\ last.arg.len > 0 =>
                 /\ rb # << >>
                 /\ rb[1].from = 0
                 /\ rb[Len(rb)].to = last.arg.len
                 /\ \A k \in 1..Len(rb) - 1 : rb[k].to = rb[k + 1].from

\* C25: an item that carries a pre-built list of at least one block gets
\* exactly that list, whatever its summary, its link and the research text
C25_PrebuiltBlocksVerbatim ==
    (PageBuilt /\ last.pre.content_blocks \notin {NoBlocks, << >>}) =>
        last.ret.children = last.pre.content_blocks

\* a pre-built list beside a structured summary, a link and research notes
C25_Witness ==
    /\ PageBuilt
    /\ Len(last.pre.content_blocks) = 2
    /\ last.pre.summary = PlainSummary(ShortLen)
    /\ last.pre.link # "null"
    /\ last.arg.given /\ last.arg.len > BLOCK_CEILING
    /\ last.ret.children = last.pre.content_blocks

\* C25 as stated: whenever content_blocks is set, the empty list included
C25_AnyListVerbatim ==
    (PageBuilt /\ last.pre.content_blocks # NoBlocks) =>
        last.ret.children = last.pre.content_blocks

\* C28: the summary daily_briefing composes gives a freshness callout and, for
\* each of the three other sections, a heading directly followed by a paragraph
C28_BriefingSummaryStructured ==
    (Rendered /\ \E len \in {ShortLen, LongLen} : last.pre.summary = BriefingSummary(len)) =>
        LET ch == last.ret.children
        IN /\ Cardinality(BlocksAt(ch, "callout", "freshness")) = 1
           /\ \A m \in Markers \ {"freshness"} :
                 \E h \in BlocksAt(ch, "heading_3", m) :
                     h + 1 \in BlocksAt(ch, "paragraph", "none")

Extractors == {"_parse_json_response", "deep._parse_json", "ultimate._parse_json"}

\* a text that is one JSON array
IsArray(text) == json_loads(text).ok /\ json_loads(text).val.kind = "list"

\* the array a text stands for: bare, between fences, or with one comma before
\* its closing bracket
BareArray(content) == IsArray(content)
FencedArray(content) ==
    /\ Len(content) > 2
    /\ content[1] = "fence" /\ content[Len(content)] = "fence"
    /\ IsArray(SubSeq(content, 2, Len(content) - 1))
TrailingCommaArray(content) ==
    /\ Len(content) > 3
    /\ content[Len(content)] = "]" /\ content[Len(content) - 1] = ","
    /\ content[Len(content) - 2] # ","
    /\ IsArray(SubSeq(content, 1, Len(content) - 2) \o <<"]">>)

\* C26: each extractor returns the elements of a bare array, of an array
\* between code fences and of an array with one trailing comma, an empty list
\* for a text without brackets that is no JSON, and always a list, never raising
C26_ArrayExtracted ==
    last.op \in Extractors =>
        /\ ~last.ret.raised
        /\ last.ret.val.kind = "list"
        /\ BareArray(last.pre) => last.ret.val = json_loads(last.pre).val
        /\ FencedArray(last.pre) =>
              last.ret.val = json_loads(SubSeq(last.pre, 2, Len(last.pre) - 1)).val
        /\ TrailingCommaArray(last.pre) =>
              last.ret.val = json_loads(SubSeq(last.pre, 1, Len(last.pre) - 2) \o <<"]">>).val
        /\ (\A i \in DOMAIN last.pre : last.pre[i] \in {"prose", "fence"}) =>
              last.ret.val = JsonList(<< >>)

\* C27: _is_duplicate gives a title and its upper-case form the same answer,
\* and gives the same answer to every title with the same first fifty
\* characters, case ignored
C27_DuplicateIgnoresCase ==
    last.op = "_is_duplicate" =>
        /\ is_duplicate(last.pre, str_upper(last.arg)) = last.ret
        /\ \A other \in DupTitles :
              Normalized(other) = Normalized(last.arg) =>
                  is_duplicate(last.pre, other) = last.ret

\* C29: in one hour a single instance, run after run, sends at most 15 research
\* queries, the failed ones counted
C29_QueriesPerHour ==
    run.sent <= HOURLY_FETCH_LIMIT

\* fifteen queries sent in one hour, not all of them recorded as fetches
C29_Witness ==
    /\ run.sent = HOURLY_FETCH_LIMIT
    /\ usage.shape = "ok"
    /\ usage.news_fetch_hour = run.hour
    /\ usage.news_fetches_this_hour < run.sent

\* the normalized titles of the items a collect_all call returned
ReturnedTitles == {Normalized(last.ret[i].title) : i \in DOMAIN last.ret}

\* the titles among the 100 saved last before the call
RecentlyReturned ==
    {LastN(last.pre.returned, NEWS_HISTORY_CAP)[j] :
        j \in DOMAIN LastN(last.pre.returned, NEWS_HISTORY_CAP)}

\* C30: collect_all returns no item whose normalized title was in the history
\* when the call started, and none that an earlier call (of this instance or of
\* an earlier one) returned and that is still among the 100 titles saved last
C30_NothingReturnedTwice ==
    last.op = "collect_all" =>
        /\ \A j \in DOMAIN last.pre.history : last.pre.history[j] \notin ReturnedTitles
        /\ ReturnedTitles \cap RecentlyReturned = {}

\* a call that was offered a title returned before and left it out, by a
\* history that is full, and a call that returned a title again after it had
\* left the 100 saved last
C30_Witness ==
    /\ last.op = "collect_all"
    /\ Len(last.pre.history) = NEWS_HISTORY_CAP
    /\ Len(last.ret) = TOP_ITEMS
    /\ \/ \E i \in DOMAIN last.arg : Normalized(last.arg[i].title) \in RecentlyReturned
       \/ \E j \in DOMAIN last.pre.returned : last.pre.returned[j] \in ReturnedTitles

====
